---- MODULE Spec2Model ----
(***************************************************************************)
(* A model of the capability plugin system of ai_self_enhancement:         *)
(*   - CapabilityRegistry (capability_registry.py) over CapabilityLoader   *)
(*     (capability_loader.py) and the snapshot files of                    *)
(*     data_persistence.py;                                                *)
(*   - the control loop of AICore (ai_core.py) with SelfReflection         *)
(*     (self_reflection.py).                                               *)
(*                                                                         *)
(* Two threads of control are modelled: the thread that runs               *)
(* AICore.start(), and a client that calls stop(), add_capability() and    *)
(* remove_capability() on the same objects at any moment.                  *)
(*                                                                         *)
(* The methods a caller can use by themselves are modelled as calls of the *)
(* client, each specification taking the calls of one object:              *)
(*   SpecCalls     get_capability and execute_capability of the registry   *)
(*                 and of the loader, AICore.execute_capability;           *)
(*   SpecReflect   log_performance, log_project_management_performance,    *)
(*                 the two analyses and suggest_improvements;              *)
(*   SpecInsights  act_on_insights on a report, with handlers that may     *)
(*                 raise.                                                  *)
(*   SpecStore     save_logs, save_performance_data and the two loads of   *)
(*                 data_persistence.py, over a data directory that may     *)
(*                 hold snapshots of another release, the clock advancing; *)
(*   SpecLoad      load_capabilities on a loader whose directory changes;  *)
(*   SpecRestart   registries constructed one after the other over the     *)
(*                 same data directory;                                    *)
(*   SpecFaulty    the loop of AICore.start() with an analyze_performance, *)
(*                 an act_on_insights and a wait that may raise;           *)
(*   SpecBoard     AutonomousProjectManager (autonomous_pm.py) over a      *)
(*                 board file: its methods called one by one, and run().   *)
(* An exception is given with its cause chain (__cause__).                 *)
(*                                                                         *)
(* AICore.__init__ passes (registry, debug_mode) to SelfReflection, whose  *)
(* __init__ takes the registry alone, so the constructor itself raises     *)
(* TypeError. The AICore modelled here is the object with its two          *)
(* collaborators in place (as the fixtures of tests/test_ai_core.py build  *)
(* it), the SelfReflection being the class of self_reflection.py. A        *)
(* registry that has just been constructed has an empty catalog: the       *)
(* loader's capabilities enter it through add_capability only.             *)
(***************************************************************************)
EXTENDS Integers, Sequences, FiniteSets, TLC

VARIABLES
    capabilities,     \* CapabilityRegistry.capabilities: insertion-ordered dict, a sequence of entries
    files,            \* data directory: second of the file name -> snapshot written there
    clock,            \* second of the wall clock, as read by datetime.now() in save_performance_data
    loader_capabilities, \* CapabilityLoader.capabilities: the names the loader maps to callables
    lastCall,         \* the last registry, loader or execute_capability call of the client and how it ended
    pre,              \* the catalog immediately before that call
    added,            \* names whose add_capability returned normally and that no remove has returned True for since
    running,          \* AICore.running
    pc,               \* position of the thread inside AICore.start()
    cycle,            \* number of execute_task_cycle calls started by the loop
    iterUsed,         \* list_capabilities: size of the dict when its iteration began
    iterPos,          \* list_capabilities: entries of the dict already visited
    iterDirty,        \* list_capabilities: the dict was modified since the iteration began
    listed,           \* the dict list_capabilities builds / has returned to the cycle
    listedFrom,       \* the catalog at the moment the listing of this cycle began
    idx,              \* execute_task_cycle: entries of listed already processed
    attempts,         \* the calls of AICore.execute_capability in this cycle: name and execution_status
    performance_logs, \* SelfReflection.performance_logs
    project_management_logs, \* SelfReflection.project_management_logs
    lastReflect,      \* the last call the client made on SelfReflection or act_on_insights, and how it ended
    logsAtCycleStart, \* length of performance_logs when the cycle began
    performance_data, \* AICore.performance_data: name -> sequence of task results
    analysis,         \* the report of analyze_performance in this reflection pass
    dispatched,       \* handlers invoked by act_on_insights in this reflection pass
    waited,           \* wait(): get_time_difference(start_time, end_time)
    phases,           \* phases the current cycle has finished, in order
    prevPhases,       \* phases of the cycle before the current one
    stopAt,           \* where the loop was when stop() cleared the running flag
    fatal,            \* cycles whose execute_task_cycle raised
    log_files,        \* data directory, the logs_ files: name -> snapshot written there
    saves,            \* the save_logs and save_performance_data calls that wrote their file, in order
    capability_dir,   \* the files of the capability directory
    tasks,            \* AutonomousProjectManager.tasks: column -> list of Task objects
    project_logs,     \* AutonomousProjectManager.project_logs
    kanban_file,      \* the markdown file at kanban_path
    run_pc,           \* position of the caller inside AutonomousProjectManager.run()
    next_task,        \* run(): the task select_next_task returned, if any
    lastBoard         \* the last call made on the manager and how it ended

registryVars == <<capabilities, files, clock, loader_capabilities, lastCall, pre, added>>
reflectionVars == <<project_management_logs, lastReflect>>
storeVars == <<log_files, saves, capability_dir>>
boardVars == <<tasks, project_logs, kanban_file, run_pc, next_task, lastBoard>>
coreVars == <<running, pc, cycle, iterUsed, iterPos, iterDirty, listed, listedFrom, idx, attempts,
              performance_logs, logsAtCycleStart, performance_data, analysis,
              dispatched, waited, phases, prevPhases, stopAt, fatal>>
vars == <<capabilities, files, clock, loader_capabilities, lastCall, pre, added,
          project_management_logs, lastReflect,
          running, pc, cycle, iterUsed, iterPos, iterDirty, listed, listedFrom, idx, attempts,
          performance_logs, logsAtCycleStart, performance_data, analysis,
          dispatched, waited, phases, prevPhases, stopAt, fatal,
          log_files, saves, capability_dir,
          tasks, project_logs, kanban_file, run_pc, next_task, lastBoard>>

----------------------------------------------------------------------------
(* Bounds of the model                                                     *)

MaxCycles == 2       \* cycles the loop may start
MaxLogs == 2         \* entries the client may log with log_performance
MaxProjectLogs == 5  \* entries the client may log with log_project_management_performance
MaxImprovements == 2 \* strings in areas_for_improvement of a report
MaxSaves == 2        \* save_logs and save_performance_data calls that write their file
MaxClock == 1        \* seconds the wall clock advances
MaxFiles == 2        \* files the client's calls on data_persistence leave in the data directory
MaxTasks == 3        \* task lines of a board file
MaxBoardLogs == 4    \* entries of project_logs after which the caller makes no further call

----------------------------------------------------------------------------
(* Names, descriptions and the loader                                      *)

\* A name is a Python str: a sequence of characters.
NameEmpty == <<>>
NameBlank == <<" ">>
NameF == <<"m", ".", "f">>
NameG == <<"m", ".", "g">>
NameH == <<"x", ".", "h">>

NameInputs == {NameEmpty, NameBlank, NameF, NameG, NameH}
DescriptionInputs == {"d1", "d2"}

IsSpace(c) == c = " "

RECURSIVE LStrip(_)
LStrip(s) == IF s # <<>> /\ IsSpace(Head(s)) THEN LStrip(Tail(s)) ELSE s

RECURSIVE RStrip(_)
RStrip(s) ==
    IF s # <<>> /\ IsSpace(s[Len(s)]) THEN RStrip(SubSeq(s, 1, Len(s) - 1)) ELSE s

\* str.strip()
Strip(s) == RStrip(LStrip(s))

\* CapabilityLoader.capabilities after load_capabilities: the qualified names
\* of the callables found in the capability directory. A handle is identified
\* by the name it was loaded under.
LoaderCapabilities == {NameF, NameG}

\* The two exception classes named CapabilityError: the registry raises the
\* one of error_handling.py, the loader the one capability_loader.py defines.
RegistryCapabilityError == "error_handling.CapabilityError"
LoaderCapabilityError == "capability_loader.CapabilityError"

CapabilityErrors == {RegistryCapabilityError, LoaderCapabilityError}

\* An exception; a raised exception is given with its cause chain, the
\* exception itself first, then its __cause__, and so on.
Exc(type, message) == [type |-> type, message |-> message]

\* CapabilityLoader.get_capability: the handle, or CapabilityError (KeyError);
\* the CapabilityError is raised without `from`.
LoaderGetCapability(name) ==
    IF name \in loader_capabilities
    THEN [raised |-> "none", function |-> name, chain |-> <<>>]
    ELSE [raised |-> "CapabilityError", function |-> <<>>,
          chain |-> <<Exc(LoaderCapabilityError, "not found")>>]

\* str.startswith, str.endswith
StartsWith(s, prefix) == Len(s) >= Len(prefix) /\ SubSeq(s, 1, Len(prefix)) = prefix
EndsWith(s, suffix) ==
    Len(s) >= Len(suffix) /\ SubSeq(s, Len(s) - Len(suffix) + 1, Len(s)) = suffix

\* A file of the capability directory: its name, whether exec_module runs it
\* to the end, and the names dir(module) gives with callable() of each.
Symbol(name, isCallable) == [name |-> name, callable |-> isCallable]

FileM == [filename |-> <<"m", ".", "p", "y">>, loads |-> TRUE,
          symbols |-> {Symbol(<<"f">>, TRUE), Symbol(<<"g">>, TRUE)}]
FileX == [filename |-> <<"x", ".", "p", "y">>, loads |-> TRUE,
          symbols |-> {Symbol(<<"h">>, TRUE), Symbol(<<"_", "p">>, TRUE),
                       Symbol(<<"N">>, FALSE), Symbol(<<"_", "_", "d">>, TRUE)}]
FileB == [filename |-> <<"b", ".", "p", "y">>, loads |-> FALSE, symbols |-> {}]
FileInit == [filename |-> <<"_", "_", "i", ".", "p", "y">>, loads |-> TRUE,
             symbols |-> {Symbol(<<"k">>, TRUE)}]
FileNotes == [filename |-> <<"n", ".", "t", "x", "t">>, loads |-> TRUE, symbols |-> {}]

\* the directory the registry of the other specifications was built over
InitialDirectory == {FileM}

\* load_capabilities looks at the files ending in .py whose name does not
\* begin with two underscores; the module name is the file name without .py
IsCapabilityFile(filename) ==
    EndsWith(filename, <<".", "p", "y">>) /\ ~StartsWith(filename, <<"_", "_">>)

ModuleName(filename) == SubSeq(filename, 1, Len(filename) - 3)

\* the names load_capability_module registers for a module that loads
Registered(file) ==
    {ModuleName(file.filename) \o <<".">> \o item.name :
        item \in {i \in file.symbols : i.callable /\ ~StartsWith(i.name, <<"_", "_">>)}}

\* load_capability_module: the mapping with the callables of the module, or
\* CapabilityError from the exception of the module
LoadCapabilityModule(caps, file) ==
    IF file.loads
    THEN [raised |-> "none", capabilities |-> caps \cup Registered(file), chain |-> <<>>]
    ELSE [raised |-> "CapabilityError", capabilities |-> caps,
          chain |-> <<Exc(LoaderCapabilityError, "Failed to load module"),
                      Exc("Exception", "raised by the module")>>]

\* load_capabilities: the files in the order os.listdir gives them, each
\* module's callables put into self.capabilities as it is loaded; the first
\* module that fails ends the load with CapabilityError.
RECURSIVE LoadCapabilities(_, _)
LoadCapabilities(caps, order) ==
    IF order = <<>> THEN [raised |-> "none", capabilities |-> caps, chain |-> <<>>]
    ELSE IF ~IsCapabilityFile(Head(order).filename) THEN LoadCapabilities(caps, Tail(order))
    ELSE LET loaded == LoadCapabilityModule(caps, Head(order))
         IN IF loaded.raised = "none"
            THEN LoadCapabilities(loaded.capabilities, Tail(order))
            ELSE [raised |-> "CapabilityError", capabilities |-> loaded.capabilities,
                  chain |-> <<Exc(LoaderCapabilityError, "Failed to load capabilities")>>
                            \o loaded.chain]

----------------------------------------------------------------------------
(* The insertion-ordered dict self.capabilities                            *)

Names(caps) == {caps[i].name : i \in 1..Len(caps)}
NameSeq(caps) == [i \in 1..Len(caps) |-> caps[i].name]

HasKey(caps, name) == \E i \in 1..Len(caps) : caps[i].name = name

IndexOf(caps, name) == CHOOSE i \in 1..Len(caps) : caps[i].name = name

\* d[name] = value: a new key goes last, an existing key keeps its place.
DictSet(caps, name, value) ==
    IF HasKey(caps, name)
    THEN [caps EXCEPT ![IndexOf(caps, name)] = value]
    ELSE Append(caps, value)

\* del d[name]
DictDel(caps, name) ==
    LET i == IndexOf(caps, name)
    IN SubSeq(caps, 1, i - 1) \o SubSeq(caps, i + 1, Len(caps))

\* d[name] for a key that is present
DictGet(caps, name) == caps[IndexOf(caps, name)]

----------------------------------------------------------------------------
(* data_persistence.py                                                     *)

DATA_VERSION == "1.0"

\* dict.get(key, default)
Get(report, key, default) == IF key \in DOMAIN report THEN report[key] ELSE default

\* A value as json.dump writes it and json.load returns it: its Python type
\* and its content. A file of the data directory holds a dict; `files` and
\* `log_files` map the name of a file to that dict. The name of a file this
\* program writes is the second it was written in; a name below zero is a
\* file that another release of the program left in the directory.
JsonList(items) == [kind |-> "list", items |-> items]
JsonDict(d) == [kind |-> "dict", value |-> d]
JsonInt(n) == [kind |-> "int", number |-> n]

\* a version test that accepts every snapshot
IsCompatibleVersionAlways(data) == TRUE

\* is_compatible_version(data): data.get("version") == DATA_VERSION
IsCompatibleVersion(data) == Get(data, "version", "None") = DATA_VERSION

\* os.listdir: the names of a directory, in some order
Orders(S) ==
    {o \in [1..Cardinality(S) -> S] : \A i, j \in 1..Cardinality(S) : o[i] = o[j] => i = j}

SaveOutcomes == {"written", "failed"}

\* save_performance_data: one file per call, named by the second of the call;
\* a second call in the same second opens the same file for writing. When the
\* directory or the file cannot be written, DataPersistenceError is raised.
SavePerformanceData(fs, now, data, outcome) ==
    IF outcome = "written"
    THEN [raised |-> "none",
          files |-> [t \in DOMAIN fs \cup {now} |->
                        IF t = now
                        THEN [version |-> DATA_VERSION, performance_data |-> data]
                        ELSE fs[t]]]
    ELSE [raised |-> "DataPersistenceError", files |-> fs]

\* CapabilityRegistry._save_capabilities
CatalogRecords(caps) ==
    [i \in 1..Len(caps) |->
        [type |-> "capability", name |-> caps[i].name, description |-> caps[i].description]]

SaveCapabilities(caps, fs, now, outcome) ==
    SavePerformanceData(fs, now, JsonList(CatalogRecords(caps)), outcome)

\* save_performance_data(performance_data, debug_mode): after the file is
\* written, the debug branch logs list(performance_data.keys()), inside the
\* try; a value without keys() makes the call end in DataPersistenceError.
SavePerformanceDataIn(debug_mode, fs, now, data, outcome) ==
    LET saved == SavePerformanceData(fs, now, data, outcome)
    IN IF saved.raised = "none" /\ debug_mode /\ data.kind # "dict"
       THEN [raised |-> "DataPersistenceError", files |-> saved.files]
       ELSE saved

\* save_logs(logs, debug_mode): one file per call, named by the second of the
\* call; the debug branch logs len(logs) after the file is written.
SaveLogs(debug_mode, fs, now, logs, outcome) ==
    IF outcome = "written"
    THEN [raised |-> IF debug_mode /\ logs.kind = "int"
                     THEN "DataPersistenceError" ELSE "none",
          files |-> [t \in DOMAIN fs \cup {now} |->
                        IF t = now THEN [version |-> DATA_VERSION, logs |-> logs]
                        ELSE fs[t]]]
    ELSE [raised |-> "DataPersistenceError", files |-> fs]

\* load_logs: the files in the order os.listdir gives them; the logs of every
\* compatible file extend the result, an int cannot extend a list.
RECURSIVE LoadLogsFrom(_, _, _)
LoadLogsFrom(fs, order, logs) ==
    IF order = <<>> THEN [raised |-> "none", result |-> logs]
    ELSE LET data == fs[Head(order)]
             payload == Get(data, "logs", JsonList(<<>>))
         IN IF ~IsCompatibleVersion(data) THEN LoadLogsFrom(fs, Tail(order), logs)
            ELSE IF payload.kind = "int"
                 THEN [raised |-> "DataPersistenceError", result |-> <<>>]
                 ELSE LoadLogsFrom(fs, Tail(order), logs \o payload.items)

LoadLogs(fs, order) == LoadLogsFrom(fs, order, <<>>)

\* load_performance_data: the payload of every compatible file is appended
RECURSIVE LoadPerformanceDataFrom(_, _, _)
LoadPerformanceDataFrom(fs, order, performance) ==
    IF order = <<>> THEN [raised |-> "none", result |-> performance]
    ELSE LET data == fs[Head(order)]
         IN IF ~IsCompatibleVersion(data)
            THEN LoadPerformanceDataFrom(fs, Tail(order), performance)
            ELSE LoadPerformanceDataFrom(fs, Tail(order),
                    Append(performance, Get(data, "performance_data", JsonDict(<<>>))))

LoadPerformanceData(fs, order) == LoadPerformanceDataFrom(fs, order, <<>>)

\* get_latest_performance_data: the last element of what load_performance_data
\* returns, or None when that list is empty
GetLatestPerformanceData(fs, order) ==
    LET loaded == LoadPerformanceData(fs, order)
    IN IF loaded.raised # "none"
       THEN [raised |-> "DataPersistenceError", isNone |-> FALSE, result |-> JsonDict(<<>>)]
       ELSE IF loaded.result = <<>>
       THEN [raised |-> "none", isNone |-> TRUE, result |-> JsonDict(<<>>)]
       ELSE [raised |-> "none", isNone |-> FALSE,
             result |-> loaded.result[Len(loaded.result)]]

----------------------------------------------------------------------------
(* CapabilityRegistry                                                      *)

\* list_capabilities on a quiescent catalog: name -> description, in dict order
ListCapabilities(caps) ==
    [i \in 1..Len(caps) |-> [name |-> caps[i].name, description |-> caps[i].description]]

\* a get_capability that asks the loader for a name the catalog does not hold
GetCapabilityFallsBackToLoader(caps, name) ==
    IF ~HasKey(caps, name)
    THEN LoaderGetCapability(name)
    ELSE [raised |-> "none", function |-> DictGet(caps, name).function, chain |-> <<>>]

\* get_capability: the entry, or CapabilityError. The error for a missing name
\* is raised inside the try and raised again from the except clause.
GetCapability(caps, name) ==
    IF ~HasKey(caps, name)
    THEN [raised |-> "CapabilityError", function |-> <<>>,
          chain |-> <<Exc(RegistryCapabilityError, "Failed to retrieve capability"),
                      Exc(RegistryCapabilityError, "not found")>>]
    ELSE [raised |-> "none", function |-> DictGet(caps, name).function, chain |-> <<>>]

\* add_capability without the test for a name already in the catalog
AddRejectionNoDuplicateTest(caps, name) ==
    IF Strip(name) = <<>> THEN "invalid name"
    ELSE IF LoaderGetCapability(name).raised # "none" THEN "not found in loader"
    ELSE "none"

\* The checks add_capability makes before it touches the catalog.
AddRejection(caps, name) ==
    IF Strip(name) = <<>> THEN "invalid name"
    ELSE IF HasKey(caps, name) THEN "already exists"
    ELSE IF LoaderGetCapability(name).raised # "none" THEN "not found in loader"
    ELSE "none"

\* add_capability(name, description): the catalog and files it leaves and how
\* it ends. Every exception of the body is re-raised as CapabilityError.
AddCapabilityResult(caps, fs, now, name, description, outcome) ==
    IF AddRejection(caps, name) # "none"
    THEN [capabilities |-> caps, files |-> fs, raised |-> "CapabilityError",
          cause |-> AddRejection(caps, name), wrote |-> FALSE]
    ELSE LET caps2 == DictSet(caps, name,
                        [name |-> name, description |-> description,
                         function |-> LoaderGetCapability(name).function])
             saved == SaveCapabilities(caps2, fs, now, outcome)
         IN [capabilities |-> caps2, files |-> saved.files,
             raised |-> IF saved.raised = "none" THEN "none" ELSE "CapabilityError",
             cause |-> saved.raised, wrote |-> TRUE]

\* remove_capability(name): True, False, or CapabilityError
RemoveCapabilityResult(caps, fs, now, name, outcome) ==
    IF HasKey(caps, name)
    THEN LET caps2 == DictDel(caps, name)
             saved == SaveCapabilities(caps2, fs, now, outcome)
         IN [capabilities |-> caps2, files |-> saved.files,
             raised |-> IF saved.raised = "none" THEN "none" ELSE "CapabilityError",
             returned |-> IF saved.raised = "none" THEN "True" ELSE "raised",
             cause |-> saved.raised, wrote |-> TRUE]
    ELSE [capabilities |-> caps, files |-> fs, raised |-> "none",
          returned |-> "False", cause |-> "none", wrote |-> FALSE]

NoCall == [op |-> "none", name |-> <<>>, description |-> "", raised |-> "none",
           returned |-> "None", cause |-> "none", wrote |-> FALSE]

\* What a registry call of the client leaves of the loop's variables: a call
\* that changes the dict while list_capabilities iterates over it is seen by
\* the iterator.
ClientLeaves(caps2) ==
    /\ iterDirty' = (iterDirty \/ (pc = "listing" /\ caps2 # capabilities))
    /\ UNCHANGED <<running, pc, cycle, iterUsed, iterPos, listed, listedFrom, idx,
                   attempts, performance_logs, logsAtCycleStart, performance_data,
                   analysis, dispatched, waited, phases, prevPhases, stopAt, fatal>>
    /\ UNCHANGED <<reflectionVars, storeVars, boardVars>>

\* The client calls registry.add_capability(name, description).
AddCapabilityCall(names, descriptions, outcomes) ==
    \E name \in names, description \in descriptions, outcome \in outcomes :
        LET r == AddCapabilityResult(capabilities, files, clock, name, description, outcome)
        IN /\ capabilities' = r.capabilities
           /\ files' = r.files
           /\ pre' = capabilities
           /\ lastCall' = [op |-> "add", name |-> name, description |-> description,
                           raised |-> r.raised, returned |-> "None",
                           cause |-> r.cause, wrote |-> r.wrote]
           /\ added' = IF r.raised = "none" THEN added \cup {name} ELSE added
           /\ UNCHANGED <<clock, loader_capabilities>>
           /\ ClientLeaves(r.capabilities)

\* The client calls registry.remove_capability(name).
RemoveCapabilityCall(names, outcomes) ==
    \E name \in names, outcome \in outcomes :
        LET r == RemoveCapabilityResult(capabilities, files, clock, name, outcome)
        IN /\ capabilities' = r.capabilities
           /\ files' = r.files
           /\ pre' = capabilities
           /\ lastCall' = [op |-> "remove", name |-> name, description |-> "",
                           raised |-> r.raised, returned |-> r.returned,
                           cause |-> r.cause, wrote |-> r.wrote]
           /\ added' = IF r.returned = "True" THEN added \ {name} ELSE added
           /\ UNCHANGED <<clock, loader_capabilities>>
           /\ ClientLeaves(r.capabilities)

AddCapability == AddCapabilityCall(NameInputs, DescriptionInputs, SaveOutcomes)

RemoveCapability == RemoveCapabilityCall(NameInputs, SaveOutcomes)

----------------------------------------------------------------------------
(* SelfReflection                                                          *)

\* The parameters of log_performance(self, task_name, result, execution_time).
LogPerformanceParams == {"task_name", "result", "execution_time"}

\* the parameters a call with three positional arguments fills by position
PositionalArguments == {"task_name", "result", "execution_time"}

\* log_performance called with three positional arguments and the keyword
\* arguments `keywords`: a keyword that is no parameter is a TypeError and
\* nothing is appended; otherwise the entry goes to the end of the history.
LogPerformance(logs, now, task_name, result, execution_time, keywords) ==
    IF keywords \subseteq (LogPerformanceParams \ PositionalArguments)
    THEN [raised |-> "none",
          logs |-> Append(logs, [timestamp |-> now, task_name |-> task_name,
                                 result |-> result, execution_time |-> execution_time])]
    ELSE [raised |-> "TypeError", logs |-> logs]

RECURSIVE SumExecutionTime(_)
SumExecutionTime(logs) ==
    IF logs = <<>> THEN 0 ELSE Head(logs).execution_time + SumExecutionTime(Tail(logs))

\* an analyze_performance that computes its statistics for every history
AnalyzePerformanceWithoutEmptyTest(logs) ==
    [total_tasks |-> Len(logs),
     total_execution_time |-> SumExecutionTime(logs),
     average_execution_time |-> <<SumExecutionTime(logs), Len(logs)>>]

\* analyze_performance: the report; the mean is kept as the pair the
\* division is made of.
AnalyzePerformance(logs) ==
    IF logs = <<>>
    THEN [message |-> "No performance data available."]
    ELSE [total_tasks |-> Len(logs),
          total_execution_time |-> SumExecutionTime(logs),
          average_execution_time |-> <<SumExecutionTime(logs), Len(logs)>>]

\* the entries of logs whose action is complete_task
RECURSIVE CompletedTasks(_)
CompletedTasks(logs) ==
    IF logs = <<>> THEN 0
    ELSE (IF Get(Head(logs), "action", "None") = "complete_task" THEN 1 ELSE 0)
         + CompletedTasks(Tail(logs))

RECURSIVE TotalTokensUsed(_)
TotalTokensUsed(logs) ==
    IF logs = <<>> THEN 0
    ELSE Get(Head(logs), "tokens_used", 0) + TotalTokensUsed(Tail(logs))

Priorities == {"High", "Medium", "Low"}

\* analyze_project_management_performance: the report, the completion rate
\* kept as the pair the division is made of. An entry whose priority is no
\* key of priority_distribution, or that has no timestamp, is a KeyError.
AnalyzeProjectManagementPerformance(logs) ==
    IF logs = <<>>
    THEN [raised |-> "none",
          report |-> [message |-> "No project management data available."]]
    ELSE IF \E i \in 1..Len(logs) :
                \/ Get(logs[i], "priority", "Medium") \notin Priorities
                \/ "timestamp" \notin DOMAIN logs[i]
    THEN [raised |-> "KeyError", report |-> [message |-> "none"]]
    ELSE [raised |-> "none",
          report |->
            [total_tasks |-> Len(logs),
             completed_tasks |-> CompletedTasks(logs),
             completion_rate |-> <<CompletedTasks(logs), Len(logs)>>,
             priority_distribution |->
                [p \in Priorities |->
                    Cardinality({i \in 1..Len(logs) :
                                    Get(logs[i], "priority", "Medium") = p})],
             progress_over_time |->
                [i \in 1..Len(logs) |->
                    [timestamp |-> logs[i].timestamp,
                     progress |-> <<CompletedTasks(logs) * 100, Len(logs)>>]],
             token_usage_over_time |->
                [i \in 1..Len(logs) |->
                    [timestamp |-> logs[i].timestamp,
                     tokens |-> Get(logs[i], "tokens_used", 0)]],
             total_tokens_used |-> TotalTokensUsed(logs)]]

\* the three suggestions of suggest_improvements
SuggestOptimize == "Consider optimizing task execution for better performance."
SuggestCompletion == "Improve task completion rate in project management."
SuggestTokens == "Look into reducing token usage for more efficient operations."

\* the ceiling of the token rule
TokenCeiling == 10000

\* a ratio <<n, d>> with d > 0 compared with a number of tenths
GreaterThanTenths(ratio, tenths) == ratio[1] * 10 > tenths * ratio[2]
LessThanTenths(ratio, tenths) == ratio[1] * 10 < tenths * ratio[2]

\* suggest_improvements: each rule reads its statistic with a default of 0.
SuggestImprovements(logs, pm_logs) ==
    LET performance_analysis == AnalyzePerformance(logs)
        pm == AnalyzeProjectManagementPerformance(pm_logs)
        project_management_analysis == pm.report
    IN IF pm.raised # "none"
       THEN [raised |-> pm.raised, suggestions |-> <<>>]
       ELSE [raised |-> "none",
             suggestions |->
                (IF GreaterThanTenths(
                        Get(performance_analysis, "average_execution_time", <<0, 1>>), 10)
                 THEN <<SuggestOptimize>> ELSE <<>>)
                \o (IF LessThanTenths(
                          Get(project_management_analysis, "completion_rate", <<0, 1>>), 8)
                    THEN <<SuggestCompletion>> ELSE <<>>)
                \o (IF Get(project_management_analysis, "total_tokens_used", 0)
                          > TokenCeiling
                    THEN <<SuggestTokens>> ELSE <<>>)]

----------------------------------------------------------------------------
(* AICore                                                                  *)

WaitSeconds == 60

\* seconds that may pass between two reads of the clock in wait()
WaitSteps == {WaitSeconds \div 2, WaitSeconds}

\* seconds a capability invocation may take
ExecTimes == {0, 2}

\* what the invoked function may do: return a value, return None, or raise
InvokeOutcomes == {"value", "None", "raises"}

\* the same for a function the client has executed directly; the exception
\* may be a CapabilityError of capability_loader.py
CallOutcomes == InvokeOutcomes \cup {"raises CapabilityError"}

Returns(outcome) == outcome \in {"value", "None"}

\* the exception a failing capability function raises
OriginalFailure(outcome) ==
    IF outcome = "raises CapabilityError"
    THEN Exc(LoaderCapabilityError, "capability failed")
    ELSE Exc("Exception", "capability failed")

\* `phrase in improvement`, both sequences of words
Contains(improvement, phrase) ==
    \E i \in 1..(Len(improvement) + 1) :
        /\ i + Len(phrase) - 1 <= Len(improvement)
        /\ SubSeq(improvement, i, i + Len(phrase) - 1) = phrase

PhraseOptimize == <<"Optimize", "performance", "for", "tasks">>
PhraseReliability == <<"Improve", "reliability", "of", "capabilities">>
PhraseNewCapabilities == <<"Consider", "adding", "new", "capabilities">>

\* three tests of one improvement that do not exclude each other
ImprovementHandlerEveryPhrase(improvement) ==
    (IF Contains(improvement, PhraseOptimize) THEN <<"optimize_slow_tasks">> ELSE <<>>)
    \o (IF Contains(improvement, PhraseReliability)
        THEN <<"improve_capability_reliability">> ELSE <<>>)
    \o (IF Contains(improvement, PhraseNewCapabilities)
        THEN <<"consider_new_capabilities">> ELSE <<>>)

\* the if / elif / elif of the loop over areas_for_improvement: the handler
\* invoked for one improvement, if any
ImprovementHandler(improvement) ==
    IF Contains(improvement, PhraseOptimize) THEN <<"optimize_slow_tasks">>
    ELSE IF Contains(improvement, PhraseReliability) THEN <<"improve_capability_reliability">>
    ELSE IF Contains(improvement, PhraseNewCapabilities) THEN <<"consider_new_capabilities">>
    ELSE <<>>

\* the loop over areas_for_improvement from the i-th improvement on: the
\* handler calls it makes. An exception of a handler is caught inside the loop.
RECURSIVE ImprovementCalls(_, _)
ImprovementCalls(improvements, i) ==
    IF i > Len(improvements) THEN <<>>
    ELSE [k \in 1..Len(ImprovementHandler(improvements[i])) |->
            [handler |-> ImprovementHandler(improvements[i])[k],
             improvement |-> improvements[i], position |-> i]]
         \o ImprovementCalls(improvements, i + 1)

\* a dict without keys
EmptyDict == [key \in {} |-> 0]

\* the test of the trend (trend_strength in tenths, so that > 0.5 reads > 5)
TrendDecreasing(trend) ==
    /\ Get(trend, "trend_direction", "None") = "decreasing"
    /\ Get(trend, "trend_strength", 0) > 5

\* any(anomalies)
AnyOf(anomalies) == \E i \in 1..Len(anomalies) : anomalies[i]

\* the call of address_decreasing_performance, if the trend asks for it
TrendCalls(report) ==
    LET trend == Get(report, "trend_analysis", EmptyDict)
    IN IF TrendDecreasing(trend)
       THEN <<[handler |-> "address_decreasing_performance", trend |-> trend]>>
       ELSE <<>>

\* an act_on_insights that looks at the anomalies only when the trend did not
\* ask for its handler
AnomalyCallsUnlessTrend(report) ==
    LET anomalies == Get(report, "anomalies", <<>>)
    IN IF AnyOf(anomalies) /\ TrendCalls(report) = <<>>
       THEN <<[handler |-> "address_anomalies",
               performance_summary |-> Get(report, "performance_summary", EmptyDict),
               anomalies |-> anomalies]>>
       ELSE <<>>

\* the call of address_anomalies, if any anomaly is flagged
AnomalyCalls(report) ==
    LET anomalies == Get(report, "anomalies", <<>>)
    IN IF AnyOf(anomalies)
       THEN <<[handler |-> "address_anomalies",
               performance_summary |-> Get(report, "performance_summary", EmptyDict),
               anomalies |-> anomalies]>>
       ELSE <<>>

\* act_on_insights(analysis) when the handlers in `failing` raise: the calls
\* of handlers it makes, in order, and the handler whose exception leaves
\* act_on_insights. The calls of the trend handler and of the anomaly handler
\* are outside every try; the loop over the improvements has its own.
ActOnInsightsRun(report, failing) ==
    IF TrendCalls(report) # <<>> /\ "address_decreasing_performance" \in failing
    THEN [calls |-> TrendCalls(report), raised |-> "address_decreasing_performance"]
    ELSE IF AnomalyCalls(report) # <<>> /\ "address_anomalies" \in failing
    THEN [calls |-> TrendCalls(report) \o AnomalyCalls(report),
          raised |-> "address_anomalies"]
    ELSE [calls |-> TrendCalls(report) \o AnomalyCalls(report)
                    \o ImprovementCalls(Get(report, "areas_for_improvement", <<>>), 1),
          raised |-> "none"]

\* act_on_insights with the handlers of ai_core.py, which log and return: the
\* handlers it invokes, in order
ActOnInsights(report) ==
    [i \in 1..Len(ActOnInsightsRun(report, {}).calls) |->
        ActOnInsightsRun(report, {}).calls[i].handler]

\* an execute_capability that answers None when the function raises
RegistryExecuteReturnsNoneOnFailure(caps, name, outcome) ==
    IF GetCapability(caps, name).raised # "none"
    THEN [raised |-> "CapabilityError", result |-> "None", invoked |-> FALSE,
          chain |-> <<Exc(RegistryCapabilityError, "Failed to execute capability")>>
                    \o GetCapability(caps, name).chain]
    ELSE [raised |-> "none", result |-> IF outcome = "value" THEN "result" ELSE "None",
          invoked |-> TRUE, chain |-> <<>>]

\* registry.execute_capability(name) as AICore.execute_capability calls it,
\* with no arguments: the result, or CapabilityError when the name is not in
\* the catalog or the function raises.
RegistryExecuteCapability(caps, name, outcome) ==
    IF GetCapability(caps, name).raised # "none"
    THEN [raised |-> "CapabilityError", result |-> "None", invoked |-> FALSE,
          chain |-> <<Exc(RegistryCapabilityError, "Failed to execute capability")>>
                    \o GetCapability(caps, name).chain]
    ELSE IF ~Returns(outcome)
    THEN [raised |-> "CapabilityError", result |-> "None", invoked |-> TRUE,
          chain |-> <<Exc(RegistryCapabilityError, "Failed to execute capability"),
                      OriginalFailure(outcome)>>]
    ELSE [raised |-> "none", result |-> IF outcome = "value" THEN "result" ELSE "None",
          invoked |-> TRUE, chain |-> <<>>]

\* CapabilityLoader.execute_capability(name): a CapabilityError (of the
\* loader) is raised again as it is, any other exception is raised as
\* CapabilityError from it.
LoaderExecuteCapability(name, outcome) ==
    IF LoaderGetCapability(name).raised # "none"
    THEN [raised |-> "CapabilityError", result |-> "None", invoked |-> FALSE,
          chain |-> LoaderGetCapability(name).chain]
    ELSE IF outcome = "raises CapabilityError"
    THEN [raised |-> "CapabilityError", result |-> "None", invoked |-> TRUE,
          chain |-> <<OriginalFailure(outcome)>>]
    ELSE IF ~Returns(outcome)
    THEN [raised |-> "CapabilityError", result |-> "None", invoked |-> TRUE,
          chain |-> <<Exc(LoaderCapabilityError, "Failed to execute capability"),
                      OriginalFailure(outcome)>>]
    ELSE [raised |-> "none", result |-> IF outcome = "value" THEN "result" ELSE "None",
          invoked |-> TRUE, chain |-> <<>>]

\* AICore.execute_capability: never raises; a failed invocation gives result None.
ExecuteCapability(caps, name, outcome, elapsed) ==
    [result |-> RegistryExecuteCapability(caps, name, outcome).result,
     execution_time |-> elapsed,
     category |-> "capability_execution"]

\* the local execution_status of AICore.execute_capability
ExecutionStatus(caps, name, outcome) ==
    IF RegistryExecuteCapability(caps, name, outcome).raised = "none"
    THEN "success" ELSE "failure"

\* update_performance_data
UpdatePerformanceData(data, capability, task_result) ==
    [c \in DOMAIN data \cup {capability} |->
        IF c = capability
        THEN Append(IF c \in DOMAIN data THEN data[c] ELSE <<>>, task_result)
        ELSE data[c]]

\* a pass that updates performance_data before it logs the entry
CyclePassUpdatesFirst(logs, data, caps, now, name, outcome, elapsed) ==
    LET task_result == ExecuteCapability(caps, name, outcome, elapsed)
        logged == LogPerformance(logs, now, name, task_result.result,
                                 task_result.execution_time, {"category"})
    IN [logs |-> IF logged.raised # "none" THEN logs ELSE logged.logs,
        data |-> UpdatePerformanceData(data, name, task_result)]

\* One pass of the body of the for loop of execute_task_cycle, for the
\* capability `name`: what it leaves of the history and of performance_data.
\* Any exception of the pass is caught and logged.
CyclePass(logs, data, caps, now, name, outcome, elapsed) ==
    LET task_result == ExecuteCapability(caps, name, outcome, elapsed)
        logged == LogPerformance(logs, now, name, task_result.result,
                                 task_result.execution_time, {"category"})
    IN IF logged.raised # "none"
       THEN [logs |-> logs, data |-> data]
       ELSE [logs |-> logged.logs, data |-> UpdatePerformanceData(data, name, task_result)]

----------------------------------------------------------------------------
(* Calls the client makes directly on the registry, the loader and AICore  *)

\* the names the client asks for
CallNames == {NameF, NameG, NameH}

\* What a call that looks up or executes a capability leaves: the catalog,
\* the files and the loader's mapping are read only.
LookupLeaves ==
    /\ pre' = capabilities
    /\ UNCHANGED <<capabilities, files, clock, loader_capabilities, added>>
    /\ ClientLeaves(capabilities)

\* The client calls registry.get_capability(name).
GetCapabilityCall ==
    \E name \in CallNames :
        LET r == GetCapability(capabilities, name)
        IN /\ lastCall' = [op |-> "get", on |-> "registry", name |-> name,
                           outcome |-> "none", raised |-> r.raised, chain |-> r.chain,
                           invoked |-> FALSE, result |-> "None",
                           loaderBefore |-> loader_capabilities]
           /\ LookupLeaves

\* The client calls registry.execute_capability(name).
ExecuteCapabilityCall ==
    \E name \in CallNames, outcome \in CallOutcomes :
        LET r == RegistryExecuteCapability(capabilities, name, outcome)
        IN /\ lastCall' = [op |-> "execute", on |-> "registry", name |-> name,
                           outcome |-> outcome, raised |-> r.raised, chain |-> r.chain,
                           invoked |-> r.invoked, result |-> r.result,
                           loaderBefore |-> loader_capabilities]
           /\ LookupLeaves

\* The client calls loader.get_capability(name).
LoaderGetCapabilityCall ==
    \E name \in CallNames :
        LET r == LoaderGetCapability(name)
        IN /\ lastCall' = [op |-> "get", on |-> "loader", name |-> name,
                           outcome |-> "none", raised |-> r.raised, chain |-> r.chain,
                           invoked |-> FALSE, result |-> "None",
                           loaderBefore |-> loader_capabilities]
           /\ LookupLeaves

\* The client calls loader.execute_capability(name).
LoaderExecuteCapabilityCall ==
    \E name \in CallNames, outcome \in CallOutcomes :
        LET r == LoaderExecuteCapability(name, outcome)
        IN /\ lastCall' = [op |-> "execute", on |-> "loader", name |-> name,
                           outcome |-> outcome, raised |-> r.raised, chain |-> r.chain,
                           invoked |-> r.invoked, result |-> r.result,
                           loaderBefore |-> loader_capabilities]
           /\ LookupLeaves

\* The client calls AICore.execute_capability(name): the record it returns.
CoreExecuteCapabilityCall ==
    \E name \in CallNames, outcome \in CallOutcomes, elapsed \in ExecTimes :
        /\ lastCall' = [op |-> "execute", on |-> "core", name |-> name,
                        outcome |-> outcome, raised |-> "none", chain |-> <<>>,
                        invoked |-> RegistryExecuteCapability(capabilities, name, outcome).invoked,
                        result |-> ExecuteCapability(capabilities, name, outcome, elapsed),
                        loaderBefore |-> loader_capabilities]
        /\ LookupLeaves

----------------------------------------------------------------------------
(* Calls the client makes directly on SelfReflection                       *)

\* the arguments of log_performance
TaskNameInputs == {NameEmpty, NameF}
ExecutionTimeInputs == {-1, 1, 2}

\* the entries AutonomousProjectManager.log_action writes
ProjectLogInputs ==
    {[timestamp |-> 0, action |-> action, description |-> "d", success |-> TRUE,
      tokens_used |-> 2500] : action \in {"assign_task", "complete_task"}}

\* the lists log_project_management_performance is called with
ProjectLogBatches == [1..1 -> ProjectLogInputs] \cup [1..2 -> ProjectLogInputs]

\* a call on SelfReflection touches the two histories only
ReflectLeaves ==
    UNCHANGED <<registryVars, running, pc, cycle, iterUsed, iterPos, iterDirty, listed,
                listedFrom, idx, attempts, logsAtCycleStart, performance_data, analysis,
                dispatched, waited, phases, prevPhases, stopAt, fatal, storeVars, boardVars>>

\* The client calls log_performance(task_name, result, execution_time).
LogPerformanceCall ==
    /\ Len(performance_logs) < MaxLogs
    /\ \E task_name \in TaskNameInputs, execution_time \in ExecutionTimeInputs :
        LET r == LogPerformance(performance_logs, clock, task_name, "result",
                                execution_time, {})
        IN /\ performance_logs' = r.logs
           /\ lastReflect' = [op |-> "log_performance", task_name |-> task_name,
                              execution_time |-> execution_time, raised |-> r.raised,
                              before |-> performance_logs]
    /\ UNCHANGED project_management_logs
    /\ ReflectLeaves

\* The client calls log_project_management_performance(project_logs).
LogProjectManagementPerformanceCall ==
    /\ \E batch \in ProjectLogBatches :
        /\ Len(project_management_logs) + Len(batch) <= MaxProjectLogs
        /\ project_management_logs' = project_management_logs \o batch
        /\ lastReflect' = [op |-> "log_project_management_performance",
                           project_logs |-> batch]
    /\ UNCHANGED performance_logs
    /\ ReflectLeaves

\* The client calls analyze_performance().
AnalyzePerformanceCall ==
    /\ lastReflect' = [op |-> "analyze_performance", history |-> performance_logs,
                       raised |-> "none", report |-> AnalyzePerformance(performance_logs)]
    /\ UNCHANGED <<performance_logs, project_management_logs>>
    /\ ReflectLeaves

\* The client calls analyze_project_management_performance().
AnalyzeProjectManagementPerformanceCall ==
    /\ lastReflect' = [op |-> "analyze_project_management_performance",
                       pm_history |-> project_management_logs,
                       raised |->
                         AnalyzeProjectManagementPerformance(project_management_logs).raised,
                       report |->
                         AnalyzeProjectManagementPerformance(project_management_logs).report]
    /\ UNCHANGED <<performance_logs, project_management_logs>>
    /\ ReflectLeaves

\* The client calls suggest_improvements().
SuggestImprovementsCall ==
    /\ lastReflect' = [op |-> "suggest_improvements", history |-> performance_logs,
                       pm_history |-> project_management_logs,
                       raised |->
                         SuggestImprovements(performance_logs, project_management_logs).raised,
                       suggestions |->
                         SuggestImprovements(performance_logs,
                                             project_management_logs).suggestions]
    /\ UNCHANGED <<performance_logs, project_management_logs>>
    /\ ReflectLeaves

----------------------------------------------------------------------------
(* A call the client makes directly on AICore.act_on_insights              *)

Handlers == {"address_decreasing_performance", "address_anomalies",
             "optimize_slow_tasks", "improve_capability_reliability",
             "consider_new_capabilities"}

\* the handlers that raise when they are invoked: none, or one of them
FailingInputs == {{}} \cup {{handler} : handler \in Handlers}

\* A key a report may lack is given as the set of its values: none, or one.
TrendInputs ==
    {{},
     {[trend_direction |-> "decreasing", trend_strength |-> 6, slope |-> -1]},
     {[trend_direction |-> "decreasing", trend_strength |-> 5, slope |-> -1]},
     {[trend_direction |-> "increasing", trend_strength |-> 6, slope |-> 1]},
     {[trend_direction |-> "decreasing"]}}

AnomalyInputs == {{}, {<<FALSE, FALSE>>}, {<<TRUE, FALSE, TRUE>>}}

SummaryInputs == {{}, {[mean |-> 1]}}

\* strings of areas_for_improvement, as sequences of words
ImprovementInputs ==
    {PhraseOptimize \o <<":", "task1">>,
     PhraseReliability \o <<":", "cap1">>,
     PhraseNewCapabilities \o <<":", "new_cap">>,
     <<"Reduce", "memory", "use">>,
     PhraseReliability \o <<"to">> \o PhraseOptimize}

AreaInputs ==
    {{}} \cup {{areas} : areas \in UNION {[1..n -> ImprovementInputs] :
                                            n \in 0..MaxImprovements}}

\* the dict {key: value} if there is a value, {} if there is none
Opt(key, values) ==
    IF values = {} THEN EmptyDict ELSE key :> (CHOOSE value \in values : TRUE)

\* The client calls act_on_insights(analysis) on an AICore that has not
\* dispatched anything yet.
ActOnInsightsCall ==
    /\ lastReflect.op = "none"
    /\ \E trend \in TrendInputs, anomalies \in AnomalyInputs, summary \in SummaryInputs,
          areas \in AreaInputs, failing \in FailingInputs :
        LET report == Opt("trend_analysis", trend) @@ Opt("anomalies", anomalies)
                      @@ Opt("performance_summary", summary)
                      @@ Opt("areas_for_improvement", areas)
            r == ActOnInsightsRun(report, failing)
        IN lastReflect' = [op |-> "act_on_insights", report |-> report,
                           failing |-> failing, calls |-> r.calls, raised |-> r.raised]
    /\ UNCHANGED <<performance_logs, project_management_logs>>
    /\ ReflectLeaves

\* The client calls perform_self_reflection(): the report of
\* analyze_performance() over the history is handed to act_on_insights, whose
\* handlers log and return.
PerformSelfReflectionCall ==
    /\ LET report == AnalyzePerformance(performance_logs)
       IN lastReflect' = [op |-> "perform_self_reflection", history |-> performance_logs,
                          report |-> report, raised |-> "none",
                          calls |-> ActOnInsightsRun(report, {}).calls]
    /\ UNCHANGED <<performance_logs, project_management_logs>>
    /\ ReflectLeaves

----------------------------------------------------------------------------
(* The thread that runs AICore.start()                                     *)

\* start(): self.running = True
Start ==
    /\ pc = "idle"
    /\ running' = TRUE
    /\ pc' = "while"
    /\ UNCHANGED <<cycle, iterUsed, iterPos, iterDirty, listed, listedFrom, idx, attempts,
                   performance_logs, logsAtCycleStart, performance_data, analysis,
                   dispatched, waited, phases, prevPhases, stopAt, fatal>>
    /\ UNCHANGED <<registryVars, reflectionVars, storeVars, boardVars>>

\* while self.running: enter the body and call execute_task_cycle
WhileEnter ==
    /\ pc = "while"
    /\ running
    /\ cycle < MaxCycles
    /\ pc' = "cycle"
    /\ cycle' = cycle + 1
    /\ attempts' = <<>>
    /\ listed' = <<>>
    /\ idx' = 0
    /\ prevPhases' = phases
    /\ phases' = <<>>
    /\ logsAtCycleStart' = Len(performance_logs)
    /\ UNCHANGED <<running, iterUsed, iterPos, iterDirty, listedFrom, performance_logs,
                   performance_data, analysis, dispatched, waited, stopAt, fatal>>
    /\ UNCHANGED <<registryVars, reflectionVars, storeVars, boardVars>>

\* while self.running: the flag is False, start() returns
WhileExit ==
    /\ pc = "while"
    /\ ~running
    /\ pc' = "returned"
    /\ UNCHANGED <<running, cycle, iterUsed, iterPos, iterDirty, listed, listedFrom, idx,
                   attempts, performance_logs, logsAtCycleStart, performance_data,
                   analysis, dispatched, waited, phases, prevPhases, stopAt, fatal>>
    /\ UNCHANGED <<registryVars, reflectionVars, storeVars, boardVars>>

\* execute_task_cycle calls list_capabilities, whose comprehension starts to
\* iterate over self.capabilities.items()
ListBegin ==
    /\ pc = "cycle"
    /\ pc' = "listing"
    /\ iterUsed' = Len(capabilities)
    /\ iterPos' = 0
    /\ iterDirty' = FALSE
    /\ listed' = <<>>
    /\ listedFrom' = capabilities
    /\ UNCHANGED <<running, cycle, idx, attempts, performance_logs, logsAtCycleStart,
                   performance_data, analysis, dispatched, waited, phases, prevPhases,
                   stopAt, fatal>>
    /\ UNCHANGED <<registryVars, reflectionVars, storeVars, boardVars>>

\* the exception handlers of start() without self.running = False
LoopRaisedKeepsRunning ==
    /\ running' = running
    /\ pc' = "while"
    /\ fatal' = fatal \cup {cycle}

\* The exception handlers of start(): an exception that leaves
\* execute_task_cycle ends the body and sets running to False.
LoopRaised ==
    /\ running' = FALSE
    /\ pc' = "while"
    /\ fatal' = fatal \cup {cycle}

\* The iterator of the comprehension is asked for the next item. A dict whose
\* size changed since the iteration began raises RuntimeError, and so may a
\* dict whose keys were changed; the exception leaves list_capabilities and
\* execute_task_cycle.
ListRaise ==
    /\ pc = "listing"
    /\ Len(capabilities) # iterUsed \/ iterDirty
    /\ LoopRaised
    /\ UNCHANGED <<cycle, iterUsed, iterPos, iterDirty, listed, listedFrom, idx, attempts,
                   performance_logs, logsAtCycleStart, performance_data, analysis,
                   dispatched, waited, phases, prevPhases, stopAt>>
    /\ UNCHANGED <<registryVars, reflectionVars, storeVars, boardVars>>

\* The iterator yields the next entry and the comprehension stores it.
ListNext ==
    /\ pc = "listing"
    /\ Len(capabilities) = iterUsed
    /\ iterPos < Len(capabilities)
    /\ listed' = DictSet(listed, capabilities[iterPos + 1].name,
                         [name |-> capabilities[iterPos + 1].name,
                          description |-> capabilities[iterPos + 1].description])
    /\ iterPos' = iterPos + 1
    /\ UNCHANGED <<running, pc, cycle, iterUsed, iterDirty, listedFrom, idx, attempts,
                   performance_logs, logsAtCycleStart, performance_data, analysis,
                   dispatched, waited, phases, prevPhases, stopAt, fatal>>
    /\ UNCHANGED <<registryVars, reflectionVars, storeVars, boardVars>>

\* The iterator is exhausted: list_capabilities returns and the for loop begins.
ListEnd ==
    /\ pc = "listing"
    /\ Len(capabilities) = iterUsed
    /\ iterPos >= Len(capabilities)
    /\ pc' = "executing"
    /\ idx' = 0
    /\ UNCHANGED <<running, cycle, iterUsed, iterPos, iterDirty, listed, listedFrom,
                   attempts, performance_logs, logsAtCycleStart, performance_data,
                   analysis, dispatched, waited, phases, prevPhases, stopAt, fatal>>
    /\ UNCHANGED <<registryVars, reflectionVars, storeVars, boardVars>>

\* a for loop that a failed capability ends
CycleNextAbortsOnFailure ==
    /\ pc = "executing"
    /\ idx < Len(listed)
    /\ \E outcome \in InvokeOutcomes, elapsed \in ExecTimes, stops \in BOOLEAN :
        LET name == listed[idx + 1].name
            r == CyclePass(performance_logs, performance_data, capabilities, clock,
                           name, outcome, elapsed)
        IN /\ performance_logs' = r.logs
           /\ performance_data' = r.data
           /\ attempts' = Append(attempts,
                    [name |-> name,
                     status |-> ExecutionStatus(capabilities, name, outcome)])
           /\ running' = (running /\ ~(stops /\ HasKey(capabilities, name)))
           /\ stopAt' = IF stops /\ HasKey(capabilities, name) /\ running
                        THEN [cycle |-> cycle, pc |-> pc, idx |-> idx] ELSE stopAt
           /\ idx' = IF ExecutionStatus(capabilities, name, outcome) = "failure"
                     THEN Len(listed) ELSE idx + 1
    /\ UNCHANGED <<pc, cycle, iterUsed, iterPos, iterDirty, listed, listedFrom,
                   logsAtCycleStart, analysis, dispatched, waited, phases, prevPhases,
                   fatal>>
    /\ UNCHANGED <<registryVars, reflectionVars, storeVars, boardVars>>

\* One pass of the for loop of execute_task_cycle. The invoked function may
\* itself call stop().
CycleNext ==
    /\ pc = "executing"
    /\ idx < Len(listed)
    /\ \E outcome \in InvokeOutcomes, elapsed \in ExecTimes, stops \in BOOLEAN :
        LET name == listed[idx + 1].name
            r == CyclePass(performance_logs, performance_data, capabilities, clock,
                           name, outcome, elapsed)
        IN /\ performance_logs' = r.logs
           /\ performance_data' = r.data
           /\ attempts' = Append(attempts,
                    [name |-> name,
                     status |-> ExecutionStatus(capabilities, name, outcome)])
           /\ running' = (running /\ ~(stops /\ HasKey(capabilities, name)))
           /\ stopAt' = IF stops /\ HasKey(capabilities, name) /\ running
                        THEN [cycle |-> cycle, pc |-> pc, idx |-> idx] ELSE stopAt
    /\ idx' = idx + 1
    /\ UNCHANGED <<pc, cycle, iterUsed, iterPos, iterDirty, listed, listedFrom,
                   logsAtCycleStart, analysis, dispatched, waited, phases, prevPhases,
                   fatal>>
    /\ UNCHANGED <<registryVars, reflectionVars, storeVars, boardVars>>

\* a for loop that also ends when the running flag is cleared
CycleEndWhenStopped ==
    /\ pc = "executing"
    /\ idx >= Len(listed) \/ ~running
    /\ pc' = "analyze"
    /\ phases' = Append(phases, "execute")
    /\ UNCHANGED <<running, cycle, iterUsed, iterPos, iterDirty, listed, listedFrom, idx,
                   attempts, performance_logs, logsAtCycleStart, performance_data,
                   analysis, dispatched, waited, prevPhases, stopAt, fatal>>
    /\ UNCHANGED <<registryVars, reflectionVars, storeVars, boardVars>>

\* The for loop is over: execute_task_cycle returns.
CycleEnd ==
    /\ pc = "executing"
    /\ idx >= Len(listed)
    /\ pc' = "analyze"
    /\ phases' = Append(phases, "execute")
    /\ UNCHANGED <<running, cycle, iterUsed, iterPos, iterDirty, listed, listedFrom, idx,
                   attempts, performance_logs, logsAtCycleStart, performance_data,
                   analysis, dispatched, waited, prevPhases, stopAt, fatal>>
    /\ UNCHANGED <<registryVars, reflectionVars, storeVars, boardVars>>

\* perform_self_reflection: analyze_performance
Analyze ==
    /\ pc = "analyze"
    /\ analysis' = AnalyzePerformance(performance_logs)
    /\ pc' = "dispatch"
    /\ phases' = Append(phases, "analyze")
    /\ UNCHANGED <<running, cycle, iterUsed, iterPos, iterDirty, listed, listedFrom, idx,
                   attempts, performance_logs, logsAtCycleStart, performance_data,
                   dispatched, waited, prevPhases, stopAt, fatal>>
    /\ UNCHANGED <<registryVars, reflectionVars, storeVars, boardVars>>

\* a loop body without the wait
DispatchWithoutWait ==
    /\ pc = "dispatch"
    /\ dispatched' = ActOnInsights(analysis)
    /\ pc' = "while"
    /\ waited' = 0
    /\ phases' = Append(phases, "dispatch")
    /\ UNCHANGED <<running, cycle, iterUsed, iterPos, iterDirty, listed, listedFrom, idx,
                   attempts, performance_logs, logsAtCycleStart, performance_data,
                   analysis, prevPhases, stopAt, fatal>>
    /\ UNCHANGED <<registryVars, reflectionVars, storeVars, boardVars>>

\* perform_self_reflection: act_on_insights; then wait(60) reads the clock twice
Dispatch ==
    /\ pc = "dispatch"
    /\ dispatched' = ActOnInsights(analysis)
    /\ pc' = "wait"
    /\ waited' = 0
    /\ phases' = Append(phases, "dispatch")
    /\ UNCHANGED <<running, cycle, iterUsed, iterPos, iterDirty, listed, listedFrom, idx,
                   attempts, performance_logs, logsAtCycleStart, performance_data,
                   analysis, prevPhases, stopAt, fatal>>
    /\ UNCHANGED <<registryVars, reflectionVars, storeVars, boardVars>>

\* wait: while get_time_difference(start_time, end_time) < seconds, read the clock again
WaitPoll ==
    /\ pc = "wait"
    /\ waited < WaitSeconds
    /\ \E d \in WaitSteps : waited' = waited + d
    /\ UNCHANGED <<running, pc, cycle, iterUsed, iterPos, iterDirty, listed, listedFrom,
                   idx, attempts, performance_logs, logsAtCycleStart, performance_data,
                   analysis, dispatched, phases, prevPhases, stopAt, fatal>>
    /\ UNCHANGED <<registryVars, reflectionVars, storeVars, boardVars>>

\* wait returns and the body of the while loop ends
WaitEnd ==
    /\ pc = "wait"
    /\ waited >= WaitSeconds
    /\ pc' = "while"
    /\ phases' = Append(phases, "wait")
    /\ UNCHANGED <<running, cycle, iterUsed, iterPos, iterDirty, listed, listedFrom, idx,
                   attempts, performance_logs, logsAtCycleStart, performance_data,
                   analysis, dispatched, waited, prevPhases, stopAt, fatal>>
    /\ UNCHANGED <<registryVars, reflectionVars, storeVars, boardVars>>

\* a perform_self_reflection that lets the exception through to start()
ReflectionRaisedStopsLoop(phase) ==
    /\ running' = FALSE
    /\ pc' = "while"
    /\ waited' = waited
    /\ phases' = Append(phases, phase)
    /\ fatal' = fatal \cup {cycle}

\* The except clause of perform_self_reflection: the exception is logged,
\* perform_self_reflection returns and start() goes on to wait(60).
ReflectionRaised(phase) ==
    /\ running' = running
    /\ pc' = "wait"
    /\ waited' = 0
    /\ phases' = Append(phases, phase)
    /\ fatal' = fatal

\* analyze_performance raises
AnalyzeRaises ==
    /\ pc = "analyze"
    /\ ReflectionRaised("analyze raised")
    /\ UNCHANGED <<cycle, iterUsed, iterPos, iterDirty, listed, listedFrom, idx, attempts,
                   performance_logs, logsAtCycleStart, performance_data, analysis,
                   dispatched, prevPhases, stopAt>>
    /\ UNCHANGED <<registryVars, reflectionVars, storeVars, boardVars>>

\* act_on_insights raises
ActOnInsightsRaises ==
    /\ pc = "dispatch"
    /\ ReflectionRaised("dispatch raised")
    /\ UNCHANGED <<cycle, iterUsed, iterPos, iterDirty, listed, listedFrom, idx, attempts,
                   performance_logs, logsAtCycleStart, performance_data, analysis,
                   dispatched, prevPhases, stopAt>>
    /\ UNCHANGED <<registryVars, reflectionVars, storeVars, boardVars>>

\* wait raises: the exception reaches the handlers of start()
WaitRaises ==
    /\ pc = "wait"
    /\ LoopRaised
    /\ phases' = Append(phases, "wait raised")
    /\ UNCHANGED <<cycle, iterUsed, iterPos, iterDirty, listed, listedFrom, idx, attempts,
                   performance_logs, logsAtCycleStart, performance_data, analysis,
                   dispatched, waited, prevPhases, stopAt>>
    /\ UNCHANGED <<registryVars, reflectionVars, storeVars, boardVars>>

\* a stop() that leaves the flag as it is
StopLeavesFlag ==
    /\ running' = running
    /\ stopAt' = IF running THEN [cycle |-> cycle, pc |-> pc, idx |-> idx] ELSE stopAt
    /\ UNCHANGED <<pc, cycle, iterUsed, iterPos, iterDirty, listed, listedFrom, idx,
                   attempts, performance_logs, logsAtCycleStart, performance_data,
                   analysis, dispatched, waited, phases, prevPhases, fatal>>
    /\ UNCHANGED <<registryVars, reflectionVars, storeVars, boardVars>>

\* The client calls stop().
Stop ==
    /\ running' = FALSE
    /\ stopAt' = IF running THEN [cycle |-> cycle, pc |-> pc, idx |-> idx] ELSE stopAt
    /\ UNCHANGED <<pc, cycle, iterUsed, iterPos, iterDirty, listed, listedFrom, idx,
                   attempts, performance_logs, logsAtCycleStart, performance_data,
                   analysis, dispatched, waited, phases, prevPhases, fatal>>
    /\ UNCHANGED <<registryVars, reflectionVars, storeVars, boardVars>>

----------------------------------------------------------------------------
(* Specifications                                                          *)

(* Calls the client makes on data_persistence                              *)

\* the values save_logs is called with
LogsInputs == {JsonList(<<[task |-> "t1"]>>), JsonList(<<[task |-> "t2"]>>), JsonInt(5)}

\* the values save_performance_data is called with: a report, or a catalog
\* as _save_capabilities passes it
PerformanceInputs ==
    {JsonDict([session |-> 1]), JsonDict([session |-> 2]),
     JsonList(<<[type |-> "capability", name |-> NameF, description |-> "d1"]>>)}

\* snapshots another release of the program has written: another version,
\* or none, and a payload of any type
OtherReleaseLogs ==
    {[version |-> "2.0", logs |-> JsonList(<<[task |-> "old"]>>)], [logs |-> JsonInt(5)]}
OtherReleasePerformance ==
    {[version |-> "2.0", performance_data |-> JsonDict([session |-> 0])],
     [performance_data |-> JsonList(<<>>)]}
OtherReleaseName == 0 - 1

\* the number of files in the data directory
Stored(logs, performance) == Cardinality(DOMAIN logs) + Cardinality(DOMAIN performance)

\* a call on data_persistence touches the data directory only
StoreLeaves ==
    UNCHANGED <<capabilities, loader_capabilities, pre, added, capability_dir,
                coreVars, reflectionVars, boardVars>>

\* A second of the wall clock passes.
Tick ==
    /\ clock < MaxClock
    /\ clock' = clock + 1
    /\ UNCHANGED <<capabilities, files, loader_capabilities, lastCall, pre, added,
                   coreVars, reflectionVars, storeVars, boardVars>>

\* The client calls save_logs(logs, debug_mode).
SaveLogsCall ==
    \E logs \in LogsInputs, debug_mode \in BOOLEAN, outcome \in SaveOutcomes :
        LET r == SaveLogs(debug_mode, log_files, clock, logs, outcome)
        IN /\ Len(saves) < MaxSaves
           /\ Stored(r.files, files) <= MaxFiles
           /\ log_files' = r.files
           /\ saves' = IF outcome = "written"
                       THEN Append(saves, [op |-> "save_logs", data |-> logs,
                                           raised |-> r.raised])
                       ELSE saves
           /\ lastCall' = [op |-> "save_logs", data |-> logs, debug_mode |-> debug_mode,
                           outcome |-> outcome, now |-> clock, before |-> log_files,
                           raised |-> r.raised, after |-> r.files]
           /\ UNCHANGED <<files, clock>>
           /\ StoreLeaves

\* The client calls save_performance_data(performance_data, debug_mode).
SavePerformanceDataCall ==
    \E data \in PerformanceInputs, debug_mode \in BOOLEAN, outcome \in SaveOutcomes :
        LET r == SavePerformanceDataIn(debug_mode, files, clock, data, outcome)
        IN /\ Len(saves) < MaxSaves
           /\ Stored(log_files, r.files) <= MaxFiles
           /\ files' = r.files
           /\ saves' = IF outcome = "written"
                       THEN Append(saves, [op |-> "save_performance_data", data |-> data,
                                           raised |-> r.raised])
                       ELSE saves
           /\ lastCall' = [op |-> "save_performance_data", data |-> data,
                           debug_mode |-> debug_mode, outcome |-> outcome, now |-> clock,
                           before |-> files, raised |-> r.raised, after |-> r.files]
           /\ UNCHANGED <<log_files, clock>>
           /\ StoreLeaves

\* The client calls load_logs(debug_mode); the debug branch lists the
\* directory once more for its message.
LoadLogsCall ==
    \E order \in Orders(DOMAIN log_files), debug_mode \in BOOLEAN :
        LET r == LoadLogs(log_files, order)
        IN /\ lastCall' = [op |-> "load_logs", debug_mode |-> debug_mode, order |-> order,
                           directory |-> log_files, saved |-> saves,
                           raised |-> r.raised, result |-> r.result]
           /\ UNCHANGED <<files, clock, log_files, saves>>
           /\ StoreLeaves

\* The client calls load_performance_data(debug_mode).
LoadPerformanceDataCall ==
    \E order \in Orders(DOMAIN files), debug_mode \in BOOLEAN :
        LET r == LoadPerformanceData(files, order)
        IN /\ lastCall' = [op |-> "load_performance_data", debug_mode |-> debug_mode,
                           order |-> order, directory |-> files, saved |-> saves,
                           raised |-> r.raised, result |-> r.result]
           /\ UNCHANGED <<files, clock, log_files, saves>>
           /\ StoreLeaves

\* The client calls get_latest_performance_data(debug_mode).
GetLatestPerformanceDataCall ==
    \E order \in Orders(DOMAIN files), debug_mode \in BOOLEAN :
        LET r == GetLatestPerformanceData(files, order)
        IN /\ lastCall' = [op |-> "get_latest_performance_data",
                           debug_mode |-> debug_mode, order |-> order,
                           directory |-> files, saved |-> saves, raised |-> r.raised,
                           isNone |-> r.isNone, result |-> r.result]
           /\ UNCHANGED <<files, clock, log_files, saves>>
           /\ StoreLeaves

\* A snapshot another release wrote is in the data directory.
OtherReleaseSaves ==
    /\ Stored(log_files, files) < MaxFiles
    /\ \/ /\ OtherReleaseName \notin DOMAIN log_files
           /\ \E data \in OtherReleaseLogs :
                log_files' = [t \in DOMAIN log_files \cup {OtherReleaseName} |->
                                IF t = OtherReleaseName THEN data ELSE log_files[t]]
           /\ UNCHANGED files
       \/ /\ OtherReleaseName \notin DOMAIN files
           /\ \E data \in OtherReleasePerformance :
                files' = [t \in DOMAIN files \cup {OtherReleaseName} |->
                            IF t = OtherReleaseName THEN data ELSE files[t]]
           /\ UNCHANGED log_files
    /\ UNCHANGED <<clock, lastCall, saves>>
    /\ StoreLeaves

----------------------------------------------------------------------------
(* Loading the capability directory, constructing a registry               *)

\* the files a developer puts into the capability directory or takes out
DirectoryFiles == {FileM, FileX, FileB, FileInit, FileNotes}

\* A file is put into the capability directory or taken out of it.
DirectoryChangeOf(candidates) ==
    /\ \E file \in candidates :
            capability_dir' = IF file \in capability_dir
                              THEN capability_dir \ {file}
                              ELSE capability_dir \cup {file}
    /\ UNCHANGED <<registryVars, coreVars, reflectionVars, log_files, saves, boardVars>>

\* The client calls loader.load_capabilities() on the loader it has.
LoadCapabilitiesCall ==
    \E order \in Orders(capability_dir) :
        LET r == LoadCapabilities(loader_capabilities, order)
        IN /\ loader_capabilities' = r.capabilities
           /\ lastCall' = [op |-> "load_capabilities", directory |-> capability_dir,
                           loaderBefore |-> loader_capabilities,
                           raised |-> r.raised, chain |-> r.chain,
                           capabilities |-> r.capabilities]
           /\ UNCHANGED <<capabilities, files, clock, pre, added,
                          coreVars, reflectionVars, storeVars, boardVars>>

\* _load_capabilities: every loaded payload is asked for its "type"; a
\* payload of type "capability" gets its handle from the loader.
RECURSIVE LoadStored(_, _, _)
LoadStored(stored, loaderCaps, caps) ==
    IF stored = <<>> THEN [raised |-> "none", capabilities |-> caps, chain |-> <<>>]
    ELSE LET entry == Head(stored)
         IN IF entry.kind # "dict"
            THEN [raised |-> "AttributeError", capabilities |-> caps,
                  chain |-> <<Exc("AttributeError", "no attribute get")>>]
            ELSE IF Get(entry.value, "type", "None") # "capability"
            THEN LoadStored(Tail(stored), loaderCaps, caps)
            ELSE IF entry.value.name \notin loaderCaps
            THEN [raised |-> "CapabilityError", capabilities |-> caps,
                  chain |-> <<Exc(LoaderCapabilityError, "not found")>>]
            ELSE LoadStored(Tail(stored), loaderCaps,
                    DictSet(caps, entry.value.name,
                        [name |-> entry.value.name,
                         description |-> entry.value.description,
                         function |-> entry.value.name]))

\* CapabilityRegistry(capability_dir): a new loader over the directory, an
\* empty catalog, then _load_capabilities over the stored payloads.
Construct(fs, dirOrder, fileOrder) ==
    LET loaded == LoadCapabilities({}, dirOrder)
        stored == LoadPerformanceData(fs, fileOrder)
        caps == LoadStored(stored.result, loaded.capabilities, <<>>)
    IN IF loaded.raised # "none"
       THEN [raised |-> loaded.raised, chain |-> loaded.chain, loaded |-> FALSE,
             capabilities |-> <<>>, loader |-> loaded.capabilities]
       ELSE [raised |-> caps.raised, chain |-> caps.chain, loaded |-> TRUE,
             capabilities |-> caps.capabilities, loader |-> loaded.capabilities]

\* The client constructs a CapabilityRegistry over the capability directory
\* and the data directory, and goes on with it; when the constructor raises,
\* the client is left with the registry it had.
ConstructRegistryCall ==
    \E dirOrder \in Orders(capability_dir), fileOrder \in Orders(DOMAIN files) :
        LET r == Construct(files, dirOrder, fileOrder)
        IN /\ capabilities' = IF r.raised = "none" THEN r.capabilities ELSE capabilities
           /\ loader_capabilities' = IF r.raised = "none" THEN r.loader
                                     ELSE loader_capabilities
           /\ added' = IF r.raised = "none" THEN {} ELSE added
           /\ pre' = capabilities
           /\ lastCall' = [op |-> "construct", raised |-> r.raised, chain |-> r.chain,
                           directory |-> files, loaded |-> r.loaded,
                           discovered |-> r.loader,
                           catalog |-> ListCapabilities(r.capabilities)]
           /\ UNCHANGED <<files, clock>>
           /\ ClientLeaves(capabilities)

----------------------------------------------------------------------------
(* AutonomousProjectManager (autonomous_pm.py)                             *)
(* A string is a sequence of characters in which a word stands as one      *)
(* character. A line of the board, and str(task), are given as parse_task  *)
(* splits them: the text before the metadata, and the metadata, if any,    *)
(* with the dependencies as split(',') cuts them.                          *)

ToDo == "To Do"
InProgress == "In Progress"
Done == "Done"

\* the keys of self.tasks, in the order of the dict
Columns == <<ToDo, InProgress, Done>>

\* Task(name, dependencies, effort, business_value). Task defines no __eq__:
\* a Task equals only itself, which the field id stands for.
Task(id, name, dependencies, effort, business_value) ==
    [id |-> id, name |-> name, dependencies |-> dependencies,
     effort |-> effort, business_value |-> business_value]

\* "(Effort: e, Value: v, Dependencies: a,b)", or "(Effort: e, Value: v)"
Meta(effort, value, dependencies) ==
    <<[effort |-> effort, value |-> value, dependencies |-> dependencies]>>

\* parse_task(task_string): the name is the whole text before the metadata;
\* effort and business_value default to 1, the dependencies to [].
ParseTask(id, task_string) ==
    IF task_string.meta = <<>>
    THEN Task(id, task_string.text, <<>>, 1, 1)
    ELSE Task(id, task_string.text, task_string.meta[1].dependencies,
              task_string.meta[1].effort, task_string.meta[1].value)

\* str(task)
Str(task) ==
    [text |-> task.name,
     meta |-> Meta(task.effort, task.business_value, task.dependencies)]

\* "- [ ] " or "- [X] "
Checkbox(status) == <<"-", " ", "[", status, "]", " ">>

\* line.strip()[4:]
DropFour(line) == [text |-> SubSeq(line.text, 5, Len(line.text)), meta |-> line.meta]

\* the tasks of one section of the file: its lines that start with "- [",
\* each without its first four characters
SectionTasks(s, lines) ==
    LET at == {i \in 1..Len(lines) : StartsWith(lines[i].text, <<"-", " ", "[">>)}
        Nth(k) == CHOOSE i \in at : Cardinality({j \in at : j < i}) = k - 1
    IN [k \in 1..Cardinality(at) |-> ParseTask(<<s, Nth(k)>>, DropFour(lines[Nth(k)]))]

\* log_action(action, description, success): the entry, without its
\* timestamp, its description and its token estimate
LogAction(logs, action, success) == Append(logs, [action |-> action, success |-> success])

\* the columns of a manager that has loaded nothing
NoTasks == [column \in {ToDo, InProgress, Done} |-> <<>>]

\* load_kanban: self.tasks[category] = tasks, section after section
RECURSIVE LoadSections(_, _, _)
LoadSections(sections, s, ts) ==
    IF s > Len(sections) THEN ts
    ELSE LoadSections(sections, s + 1,
             [ts EXCEPT ![sections[s].category] = SectionTasks(s, sections[s].lines)])

\* __init__ with load_kanban: a file that cannot be read leaves the columns
\* empty, and the error is logged.
LoadKanban(file) ==
    IF file.exists
    THEN [tasks |-> LoadSections(file.sections, 1, NoTasks),
          logs |-> LogAction(<<>>, "load_kanban", TRUE)]
    ELSE [tasks |-> NoTasks, logs |-> LogAction(<<>>, "load_kanban", FALSE)]

\* the file update_kanban writes
Written(ts) ==
    [exists |-> TRUE,
     sections |->
        [c \in 1..Len(Columns) |->
            [category |-> Columns[c],
             lines |-> [i \in 1..Len(ts[Columns[c]]) |->
                 [text |-> Checkbox(IF Columns[c] = Done THEN "X" ELSE " ")
                           \o Str(ts[Columns[c]][i]).text,
                  meta |-> Str(ts[Columns[c]][i]).meta]]]]]

\* update_kanban: an error of the write is logged and swallowed
UpdateKanban(ts, file, logs, outcome) ==
    IF outcome = "written"
    THEN [file |-> Written(ts), logs |-> LogAction(logs, "update_kanban", TRUE)]
    ELSE [file |-> file, logs |-> LogAction(logs, "update_kanban", FALSE)]

\* the key of the sort, business_value / effort, of t is greater than that of u
RatioGreater(t, u) == t.business_value * u.effort > u.business_value * t.effort

\* sorted(available_tasks, key=..., reverse=True): tasks of equal ratio keep
\* the order they have in the list
RECURSIVE SortedByRatio(_)
SortedByRatio(ts) ==
    IF ts = <<>> THEN <<>>
    ELSE LET rest == SortedByRatio(SubSeq(ts, 1, Len(ts) - 1))
             last == ts[Len(ts)]
             k == Cardinality({i \in 1..Len(rest) : ~RatioGreater(last, rest[i])})
         IN SubSeq(rest, 1, k) \o <<last>> \o SubSeq(rest, k + 1, Len(rest))

\* the tasks of To Do whose dependencies are all names of tasks in Done
AvailableTasks(ts) ==
    LET done_tasks == {ts[Done][i].name : i \in 1..Len(ts[Done])}
    IN SelectSeq(ts[ToDo],
                 LAMBDA task : \A k \in 1..Len(task.dependencies) :
                                   task.dependencies[k] \in done_tasks)

\* prioritize_tasks: the key divides by the effort of every available task
PrioritizeTasks(ts, logs) ==
    LET available_tasks == AvailableTasks(ts)
    IN IF \E i \in 1..Len(available_tasks) : available_tasks[i].effort = 0
       THEN [raised |-> "ZeroDivisionError", result |-> <<>>, logs |-> logs]
       ELSE [raised |-> "none", result |-> SortedByRatio(available_tasks),
             logs |-> LogAction(logs, "prioritize_tasks", TRUE)]

\* select_next_task: the first prioritized task, or None (the empty sequence)
SelectNextTask(ts, logs) ==
    LET p == PrioritizeTasks(ts, logs)
    IN IF p.raised # "none"
       THEN [raised |-> p.raised, next_task |-> <<>>, logs |-> logs]
       ELSE [raised |-> "none",
             next_task |-> IF p.result # <<>> THEN <<p.result[1]>> ELSE <<>>,
             logs |-> LogAction(p.logs, "select_next_task", TRUE)]

\* `task in column`
In(task, column) == \E i \in 1..Len(column) : column[i] = task

\* column.remove(task): without the first element equal to task
Remove(column, task) ==
    LET i == CHOOSE k \in 1..Len(column) :
                 column[k] = task /\ \A j \in 1..(k - 1) : column[j] # task
    IN SubSeq(column, 1, i - 1) \o SubSeq(column, i + 1, Len(column))

\* the body of assign_task and of complete_task: the task goes from one
\* column to the end of the other and the file is rewritten, or the failure
\* is logged
MoveTask(ts, logs, file, task, from, to, action, outcome) ==
    IF In(task, ts[from])
    THEN LET moved == [ts EXCEPT ![from] = Remove(ts[from], task),
                                 ![to] = Append(ts[to], task)]
             u == UpdateKanban(moved, file, logs, outcome)
         IN [tasks |-> moved, file |-> u.file, logs |-> LogAction(u.logs, action, TRUE)]
    ELSE [tasks |-> ts, file |-> file, logs |-> LogAction(logs, action, FALSE)]

\* an assign_task that leaves the task in To Do as well
AssignTaskKeepsToDo(ts, logs, file, task, outcome) ==
    IF In(task, ts[ToDo])
    THEN [tasks |-> [ts EXCEPT ![InProgress] = Append(ts[InProgress], task)],
          file |-> file, logs |-> LogAction(logs, "assign_task", TRUE)]
    ELSE [tasks |-> ts, file |-> file, logs |-> LogAction(logs, "assign_task", FALSE)]

AssignTask(ts, logs, file, task, outcome) ==
    MoveTask(ts, logs, file, task, ToDo, InProgress, "assign_task", outcome)

CompleteTask(ts, logs, file, task, outcome) ==
    MoveTask(ts, logs, file, task, InProgress, Done, "complete_task", outcome)

\* generate_performance_visualizations: the priority counts divide by the
\* effort of every task left in To Do; the plots belong to the plotting library
GeneratePerformanceVisualizations(ts) ==
    IF \E i \in 1..Len(ts[ToDo]) : ts[ToDo][i].effort = 0
    THEN "ZeroDivisionError" ELSE "none"

----------------------------------------------------------------------------
(* Calls on AutonomousProjectManager                                       *)

\* the task lines a board file is made of: the word of the name and the
\* metadata. T1 names its dependency T2 as the line of T2 writes it, T3 as
\* the manager names the task of that line; T2 and T3 have the same ratio.
PoolLines ==
    <<[word |-> "T0", meta |-> <<>>],
      [word |-> "T1", meta |-> Meta(2, 3, <<<<"T2">>>>)],
      [word |-> "T2", meta |-> Meta(1, 2, <<>>)],
      [word |-> "T3", meta |-> Meta(2, 4, <<<<"]", " ", "T2">>>>)],
      [word |-> "T4", meta |-> Meta(0, 1, <<>>)]>>

\* a line of a section that is no task
BlankLine == [text |-> <<>>, meta |-> <<>>]

\* where a board file has the lines of the pool: in a section, or nowhere
Placements ==
    {placement \in [1..Len(PoolLines) -> {ToDo, InProgress, Done, "nowhere"}] :
        Cardinality({i \in 1..Len(PoolLines) : placement[i] # "nowhere"}) <= MaxTasks}

\* the board file of a placement: the three sections in order, each with a
\* blank line and its task lines
BoardFile(placement) ==
    [exists |-> TRUE,
     sections |->
        [c \in 1..Len(Columns) |->
            [category |-> Columns[c],
             lines |->
                LET at == SelectSeq([i \in 1..Len(PoolLines) |-> i],
                                    LAMBDA i : placement[i] = Columns[c])
                IN <<BlankLine>> \o
                   [k \in 1..Len(at) |->
                       [text |-> Checkbox(IF Columns[c] = Done THEN "X" ELSE " ")
                                 \o <<PoolLines[at[k]].word>>,
                        meta |-> PoolLines[at[k]].meta]]]]]

\* inside run() the file is written every time
RunOutcomes == {"written"}

\* no file at kanban_path
NoFile == [exists |-> FALSE, sections |-> <<>>]

BoardFiles == {NoFile} \cup {BoardFile(placement) : placement \in Placements}

\* the Task objects of the board
BoardTasks(ts) == UNION {{ts[column][i] : i \in 1..Len(ts[column])} : column \in DOMAIN ts}

\* a Task object the caller builds, equal in every attribute to the task of
\* the T2 line
OtherTask == Task(<<0, 0>>, <<"]", " ", "T2">>, <<>>, 1, 2)

\* the caller is not inside run() and has calls left
MayCall ==
    /\ run_pc \in {"idle", "returned", "raised"}
    /\ Len(project_logs) < MaxBoardLogs

\* a call on the manager touches the manager and its file only
BoardLeaves == UNCHANGED <<registryVars, coreVars, reflectionVars, storeVars>>

\* AutonomousProjectManager(kanban_path)
ConstructManagerCall ==
    /\ run_pc = "none"
    /\ \E file \in BoardFiles :
        /\ kanban_file' = file
        /\ tasks' = LoadKanban(file).tasks
        /\ project_logs' = LoadKanban(file).logs
        /\ lastBoard' = [op |-> "construct", raised |-> "none"]
    /\ run_pc' = "idle"
    /\ UNCHANGED next_task
    /\ BoardLeaves

\* The caller calls prioritize_tasks().
PrioritizeTasksCall ==
    /\ MayCall
    /\ LET r == PrioritizeTasks(tasks, project_logs)
       IN /\ project_logs' = r.logs
          /\ lastBoard' = [op |-> "prioritize_tasks", before |-> tasks,
                           raised |-> r.raised, result |-> r.result]
    /\ UNCHANGED <<tasks, kanban_file, run_pc, next_task>>
    /\ BoardLeaves

\* The caller calls select_next_task().
SelectNextTaskCall ==
    /\ MayCall
    /\ LET r == SelectNextTask(tasks, project_logs)
       IN /\ project_logs' = r.logs
          /\ lastBoard' = [op |-> "select_next_task", before |-> tasks,
                           raised |-> r.raised, result |-> r.next_task]
    /\ UNCHANGED <<tasks, kanban_file, run_pc, next_task>>
    /\ BoardLeaves

\* The caller calls assign_task(task).
AssignTaskCall ==
    /\ MayCall
    /\ \E task \in BoardTasks(tasks) \cup {OtherTask}, outcome \in SaveOutcomes :
        LET r == AssignTask(tasks, project_logs, kanban_file, task, outcome)
        IN /\ tasks' = r.tasks
           /\ project_logs' = r.logs
           /\ kanban_file' = r.file
           /\ lastBoard' = [op |-> "assign_task", task |-> task, before |-> tasks,
                            raised |-> "none", after |-> r.tasks]
    /\ UNCHANGED <<run_pc, next_task>>
    /\ BoardLeaves

\* The caller calls complete_task(task).
CompleteTaskCall ==
    /\ MayCall
    /\ \E task \in BoardTasks(tasks) \cup {OtherTask}, outcome \in SaveOutcomes :
        LET r == CompleteTask(tasks, project_logs, kanban_file, task, outcome)
        IN /\ tasks' = r.tasks
           /\ project_logs' = r.logs
           /\ kanban_file' = r.file
           /\ lastBoard' = [op |-> "complete_task", task |-> task, before |-> tasks,
                            raised |-> "none", after |-> r.tasks]
    /\ UNCHANGED <<run_pc, next_task>>
    /\ BoardLeaves

\* The caller calls run(): the start is logged.
RunBegin ==
    /\ MayCall
    /\ run_pc' = "select"
    /\ project_logs' = LogAction(project_logs, "run", TRUE)
    /\ lastBoard' = [op |-> "run", before |-> tasks, raised |-> "none"]
    /\ UNCHANGED <<tasks, kanban_file, next_task>>
    /\ BoardLeaves

\* run(), top of the loop: next_task = self.select_next_task()
RunSelect ==
    /\ run_pc = "select"
    /\ LET r == SelectNextTask(tasks, project_logs)
       IN /\ project_logs' = r.logs
          /\ next_task' = r.next_task
          /\ run_pc' = IF r.raised # "none" THEN "raised"
                       ELSE IF r.next_task # <<>> THEN "assign" ELSE "end"
          /\ lastBoard' = [op |-> "select_next_task", before |-> tasks,
                           raised |-> r.raised, result |-> r.next_task]
    /\ UNCHANGED <<tasks, kanban_file>>
    /\ BoardLeaves

\* run(): self.assign_task(next_task)
RunAssign ==
    /\ run_pc = "assign"
    /\ \E outcome \in RunOutcomes :
        LET r == AssignTask(tasks, project_logs, kanban_file, next_task[1], outcome)
        IN /\ tasks' = r.tasks
           /\ project_logs' = r.logs
           /\ kanban_file' = r.file
           /\ lastBoard' = [op |-> "assign_task", task |-> next_task[1],
                            before |-> tasks, raised |-> "none", after |-> r.tasks]
    /\ run_pc' = "complete"
    /\ UNCHANGED next_task
    /\ BoardLeaves

\* run(): self.complete_task(next_task)
RunComplete ==
    /\ run_pc = "complete"
    /\ \E outcome \in RunOutcomes :
        LET r == CompleteTask(tasks, project_logs, kanban_file, next_task[1], outcome)
        IN /\ tasks' = r.tasks
           /\ project_logs' = r.logs
           /\ kanban_file' = r.file
           /\ lastBoard' = [op |-> "complete_task", task |-> next_task[1],
                            before |-> tasks, raised |-> "none", after |-> r.tasks]
    /\ run_pc' = "select"
    /\ UNCHANGED next_task
    /\ BoardLeaves

\* run(), no task selected: the end is logged, the loop is left and the
\* visualizations are generated
RunEnd ==
    /\ run_pc = "end"
    /\ project_logs' = LogAction(project_logs, "run", TRUE)
    /\ run_pc' = IF GeneratePerformanceVisualizations(tasks) = "none"
                 THEN "returned" ELSE "raised"
    /\ lastBoard' = [op |-> "run", before |-> tasks,
                     raised |-> GeneratePerformanceVisualizations(tasks)]
    /\ UNCHANGED <<tasks, kanban_file, next_task>>
    /\ BoardLeaves

----------------------------------------------------------------------------
NoStop == [cycle |-> 0, pc |-> "never", idx |-> 0]

NoReflect == [op |-> "none"]

Init ==
    /\ capabilities = <<>>
    /\ files = <<>>
    /\ clock = 0
    /\ loader_capabilities = LoaderCapabilities
    /\ lastCall = NoCall
    /\ pre = <<>>
    /\ added = {}
    /\ running = FALSE
    /\ pc = "idle"
    /\ cycle = 0
    /\ iterUsed = 0
    /\ iterPos = 0
    /\ iterDirty = FALSE
    /\ listed = <<>>
    /\ listedFrom = <<>>
    /\ idx = 0
    /\ attempts = <<>>
    /\ performance_logs = <<>>
    /\ project_management_logs = <<>>
    /\ lastReflect = NoReflect
    /\ logsAtCycleStart = 0
    /\ performance_data = <<>>
    /\ analysis = [message |-> "none"]
    /\ dispatched = <<>>
    /\ waited = 0
    /\ phases = <<>>
    /\ prevPhases = <<>>
    /\ stopAt = NoStop
    /\ fatal = {}
    /\ log_files = <<>>
    /\ saves = <<>>
    /\ capability_dir = InitialDirectory
    /\ tasks = NoTasks
    /\ project_logs = <<>>
    /\ kanban_file = NoFile
    /\ run_pc = "none"
    /\ next_task = <<>>
    /\ lastBoard = [op |-> "none"]

\* The registry under the calls of one client.
Next ==
    \/ AddCapability
    \/ RemoveCapability

Spec == Init /\ [][Next]_vars

\* The inputs of the client while the loop runs.
CoreNames == {NameF, NameG}
CoreDescriptions == {"d1"}
CoreSaveOutcomes == {"written"}

CoreAddCapability == AddCapabilityCall(CoreNames, CoreDescriptions, CoreSaveOutcomes)

CoreRemoveCapability == RemoveCapabilityCall(CoreNames, CoreSaveOutcomes)

LoopStep ==
    \/ Start
    \/ WhileEnter
    \/ WhileExit
    \/ ListBegin
    \/ ListRaise
    \/ ListNext
    \/ ListEnd
    \/ CycleNext
    \/ CycleEnd
    \/ Analyze
    \/ Dispatch
    \/ WaitPoll
    \/ WaitEnd

NextCore ==
    \/ LoopStep
    \/ Stop
    \/ CoreAddCapability
    \/ CoreRemoveCapability

\* The loop of AICore.start() with a client that adds and removes
\* capabilities and calls stop().
SpecCore == Init /\ [][NextCore]_vars

\* The loop with collaborators that may fail: analyze_performance,
\* act_on_insights and wait may raise. The client adds capabilities and calls
\* stop().
NextFaulty ==
    \/ LoopStep
    \/ Stop
    \/ CoreAddCapability
    \/ AnalyzeRaises
    \/ ActOnInsightsRaises
    \/ WaitRaises

SpecFaulty == Init /\ [][NextFaulty]_vars

\* The same, with a thread that keeps running: every capability invocation
\* returns or raises, and the clock read by wait() advances.
LiveSpec == Init /\ [][NextCore]_vars /\ WF_vars(LoopStep)

\* The registry, the loader and AICore.execute_capability under the direct
\* calls of one client.
NextCalls ==
    \/ CoreAddCapability
    \/ CoreRemoveCapability
    \/ GetCapabilityCall
    \/ ExecuteCapabilityCall
    \/ LoaderGetCapabilityCall
    \/ LoaderExecuteCapabilityCall
    \/ CoreExecuteCapabilityCall

SpecCalls == Init /\ [][NextCalls]_vars

\* SelfReflection under the direct calls of one client.
NextReflect ==
    \/ LogPerformanceCall
    \/ LogProjectManagementPerformanceCall
    \/ AnalyzePerformanceCall
    \/ AnalyzeProjectManagementPerformanceCall
    \/ SuggestImprovementsCall
    \/ PerformSelfReflectionCall

SpecReflect == Init /\ [][NextReflect]_vars

\* act_on_insights under one call of the client.
NextInsights == ActOnInsightsCall

SpecInsights == Init /\ [][NextInsights]_vars

\* data_persistence under the calls of one client, the clock advancing.
NextStore ==
    \/ SaveLogsCall
    \/ SavePerformanceDataCall
    \/ LoadLogsCall
    \/ LoadPerformanceDataCall
    \/ GetLatestPerformanceDataCall
    \/ OtherReleaseSaves
    \/ Tick

SpecStore == Init /\ [][NextStore]_vars

\* A loader whose directory changes between the loads.
NextLoad ==
    \/ DirectoryChangeOf(DirectoryFiles)
    \/ LoadCapabilitiesCall

SpecLoad == Init /\ [][NextLoad]_vars

\* the files that come and go between two constructions of the registry
RestartFiles == {FileM, FileX}

\* the catalog entries a client stores by itself, one capability a file
RestartEntries ==
    {JsonDict([type |-> "capability", name |-> NameF, description |-> "d1"])}

\* The client calls save_performance_data(entry).
SaveEntryCall ==
    \E data \in RestartEntries :
        LET r == SavePerformanceDataIn(FALSE, files, clock, data, "written")
        IN /\ Len(saves) < MaxSaves
           /\ files' = r.files
           /\ saves' = Append(saves, [op |-> "save_performance_data", data |-> data,
                                      raised |-> r.raised])
           /\ lastCall' = [op |-> "save_performance_data", data |-> data,
                           debug_mode |-> FALSE, outcome |-> "written", now |-> clock,
                           before |-> files, raised |-> r.raised, after |-> r.files]
           /\ UNCHANGED <<log_files, clock>>
           /\ StoreLeaves

\* Registries constructed one after the other over the same data directory.
NextRestart ==
    \/ CoreAddCapability
    \/ CoreRemoveCapability
    \/ SaveEntryCall
    \/ DirectoryChangeOf(RestartFiles)
    \/ ConstructRegistryCall
    \/ Tick

SpecRestart == Init /\ [][NextRestart]_vars

\* A manager is constructed over a board file; its caller calls its methods
\* and run().
NextBoard ==
    \/ ConstructManagerCall
    \/ PrioritizeTasksCall
    \/ SelectNextTaskCall
    \/ AssignTaskCall
    \/ CompleteTaskCall
    \/ RunBegin
    \/ RunSelect
    \/ RunAssign
    \/ RunComplete
    \/ RunEnd

SpecBoard == Init /\ [][NextBoard]_vars

----------------------------------------------------------------------------
(* Properties of the registry, under Spec                                  *)

NoDuplicateNames(listing) == Cardinality(Names(listing)) = Len(listing)

\* C1: after any sequence of add_capability and remove_capability calls,
\* list_capabilities() holds exactly the names whose add_capability returned
\* without error and that have not been removed since, each of them once.
C1_ListIsAddedNotRemoved ==
    /\ Names(ListCapabilities(capabilities)) = added
    /\ NoDuplicateNames(ListCapabilities(capabilities))

\* C8: when add_capability fails because saving the catalog fails, the call
\* raises CapabilityError and the catalog is what it was before the call, so
\* the name is not listed.
C8_FailedSaveLeavesCatalog ==
    (lastCall.op = "add" /\ lastCall.cause = "DataPersistenceError") =>
        /\ lastCall.raised = "CapabilityError"
        /\ capabilities = pre
        /\ lastCall.name \notin Names(ListCapabilities(capabilities))

C10_RemoveResult ==
    lastCall.op = "remove" =>
        /\ (lastCall.returned = "True") = HasKey(pre, lastCall.name)
        /\ (lastCall.returned = "False") = ~HasKey(pre, lastCall.name)
        /\ ~HasKey(pre, lastCall.name) => lastCall.raised = "none"
        /\ lastCall.returned = "True" =>
            /\ GetCapability(capabilities, lastCall.name).raised = "CapabilityError"
            /\ capabilities = DictDel(pre, lastCall.name)
        /\ lastCall.returned = "False" => capabilities = pre

----------------------------------------------------------------------------
(* Properties of the loop, under SpecCore                                  *)

AttemptNames == [i \in 1..Len(attempts) |-> attempts[i].name]

CycleReturned == pc \in {"analyze", "dispatch", "wait"}

\* the entries this cycle has appended to the self-reflection history
CycleEntries == SubSeq(performance_logs, logsAtCycleStart + 1, Len(performance_logs))

\* C2: when execute_task_cycle has completed over a listing of N capabilities,
\* the cycle has appended exactly N entries to the self-reflection history,
\* one per listed capability, whether the capability succeeded or failed.
C2_OneEntryPerCapability ==
    CycleReturned =>
        /\ Len(CycleEntries) = Len(listed)
        /\ \A i \in 1..Len(CycleEntries) : CycleEntries[i].task_name = listed[i].name

\* C3: within one cycle every capability list_capabilities() returned is
\* attempted exactly once, in the insertion order of the catalog, and a failed
\* capability does not keep the following ones from being attempted.
C3_EveryListedAttemptedOnce ==
    /\ pc = "executing" => AttemptNames = SubSeq(NameSeq(listed), 1, idx)
    /\ CycleReturned =>
        /\ AttemptNames = NameSeq(listed)
        /\ NoDuplicateNames(listed)
        /\ ~iterDirty => listed = ListCapabilities(listedFrom)

\* C3 witness: a cycle over two capabilities has returned, the first of them
\* failed and the second was attempted after it.
C3_Witness ==
    /\ CycleReturned
    /\ Len(listed) = 2
    /\ Len(attempts) = 2
    /\ attempts[1].status = "failure"
    /\ attempts[2].status = "success"

\* C4: when execute_task_cycle itself raises, the loop stops: running is
\* False, neither reflection nor the wait runs for that cycle, and no later
\* cycle is started.
C4_FatalCycleStopsLoop ==
    fatal # {} =>
        /\ fatal = {cycle}
        /\ ~running
        /\ pc \in {"while", "returned"}
        /\ phases = <<>>

\* C4 witness: the second cycle raised and start() has returned.
C4_Witness ==
    /\ fatal = {2}
    /\ pc = "returned"

InCycle == {"cycle", "listing", "executing", "analyze", "dispatch"}

AllPhases == <<"execute", "analyze", "dispatch", "wait">>

\* C5: a stop() that arrives while a cycle is in progress does not preempt
\* it: unless execute_task_cycle raised, every capability listed for the
\* cycle is attempted and reflection runs, and no further cycle is started.
C5_StopDoesNotPreempt ==
    /\ stopAt.pc \in InCycle => cycle = stopAt.cycle
    /\ (pc = "returned" /\ stopAt.pc \in InCycle /\ fatal = {}) =>
        /\ AttemptNames = NameSeq(listed)
        /\ phases = AllPhases

\* C5 witness: stop() arrived after the first of two listed capabilities, and
\* start() has returned.
C5_Witness ==
    /\ pc = "returned"
    /\ stopAt.pc = "executing"
    /\ stopAt.idx = 1
    /\ Len(listed) = 2
    /\ fatal = {}

IsPrefix(s, t) == Len(s) <= Len(t) /\ s = SubSeq(t, 1, Len(s))

\* C7: a cycle goes through execute, analyze, dispatch and wait in this order,
\* analysis begins only when every listed capability has been attempted, and
\* no capability of the next cycle is attempted before dispatch and wait of
\* the cycle before it have finished.
C7_PhaseOrder ==
    /\ IsPrefix(phases, AllPhases)
    /\ phases # <<>> => AttemptNames = NameSeq(listed)
    /\ pc = "analyze" => phases = SubSeq(AllPhases, 1, 1)
    /\ pc = "dispatch" => phases = SubSeq(AllPhases, 1, 2)
    /\ pc = "wait" => phases = SubSeq(AllPhases, 1, 3)
    /\ (cycle >= 2 /\ pc \in InCycle \cup {"wait"}) => prevPhases = AllPhases

\* C7 witness: the first capability of the second cycle has been attempted.
C7_Witness ==
    /\ cycle = 2
    /\ pc = "executing"
    /\ Len(attempts) = 1

\* C6: once stop() has cleared the flag of a running loop, start() eventually
\* returns; a stop() that arrives during the wait between two cycles is
\* honoured when the wait is over, before another cycle starts.
C6_StopTerminatesLoop ==
    /\ [](stopAt.pc # "never" => <>(pc = "returned"))
    /\ [](stopAt.pc = "wait" => cycle = stopAt.cycle)

\* C6 witness: stop() arrived during the wait after the first cycle and
\* start() has returned.
C6_Witness ==
    /\ stopAt.pc = "wait"
    /\ stopAt.cycle = 1
    /\ pc = "returned"

\* C13: when the invocation of a capability fails during a cycle,
\* AICore.execute_capability does not raise but returns a record with result
\* None, an execution_time and the category "capability_execution", and the
\* cycle logs that record for the capability.
C13_FailedInvocationLogged ==
    /\ \A name \in CoreNames, elapsed \in ExecTimes :
          ExecuteCapability(capabilities, name, "raises", elapsed)
              = [result |-> "None", execution_time |-> elapsed,
                 category |-> "capability_execution"]
    /\ CycleReturned =>
          \A i \in 1..Len(attempts) :
              attempts[i].status = "failure" =>
                  \E j \in 1..Len(CycleEntries) :
                      /\ CycleEntries[j].task_name = attempts[i].name
                      /\ CycleEntries[j].result = "None"

\* C15: for a non-empty history analyze_performance reports the number of
\* entries as total_tasks, the sum of their execution times as
\* total_execution_time and sum / count as average_execution_time; after one
\* cycle over two capabilities, one succeeding and one failing, the report of
\* the reflection has total_tasks = 2.
C15_AnalysisCountsEntries ==
    pc = "dispatch" =>
        /\ performance_logs # <<>> =>
              analysis = [total_tasks |-> Len(performance_logs),
                          total_execution_time |-> SumExecutionTime(performance_logs),
                          average_execution_time |->
                              <<SumExecutionTime(performance_logs), Len(performance_logs)>>]
        /\ (/\ cycle = 1
            /\ Len(attempts) = 2
            /\ {attempts[1].status, attempts[2].status} = {"success", "failure"}) =>
              Get(analysis, "total_tasks", 0) = 2

----------------------------------------------------------------------------
(* Properties of the direct calls, under SpecCalls                         *)

Lookup == lastCall.op \in {"get", "execute"} /\ lastCall.on \in {"registry", "loader"}

\* the name of the last lookup was missing where the call looked for it
NotPresent ==
    IF lastCall.on = "registry"
    THEN ~HasKey(pre, lastCall.name)
    ELSE lastCall.name \notin lastCall.loaderBefore

C12_InvocationFailureRaises ==
    (lastCall.op = "execute" /\ lastCall.on \in {"registry", "loader"}) =>
        /\ (lastCall.invoked /\ ~Returns(lastCall.outcome)) =>
            /\ lastCall.raised = "CapabilityError"
            /\ lastCall.chain[1].type \in CapabilityErrors
            /\ lastCall.chain[Len(lastCall.chain)] = OriginalFailure(lastCall.outcome)
        /\ (lastCall.raised = "none") = (lastCall.invoked /\ Returns(lastCall.outcome))

\* C12 witness: a capability of the catalog was executed through the registry
\* and its function raised.
C12_Witness ==
    /\ lastCall.op = "execute"
    /\ lastCall.on = "registry"
    /\ lastCall.invoked
    /\ lastCall.outcome = "raises"
    /\ Len(lastCall.chain) = 2

\* C39: the task result AICore.execute_capability builds for an invocation
\* that returned normally (with a value or with None), which is what the
\* cycle records, differs from the one it builds when the same capability
\* fails after the same elapsed time.
C39_FailureDistinguishable ==
    (/\ lastCall.op = "execute"
     /\ lastCall.on = "core"
     /\ ExecutionStatus(pre, lastCall.name, lastCall.outcome) = "success") =>
        \A failing \in CallOutcomes :
            ExecutionStatus(pre, lastCall.name, failing) = "failure" =>
                lastCall.result # ExecuteCapability(pre, lastCall.name, failing,
                                                    lastCall.result.execution_time)

----------------------------------------------------------------------------
(* Properties of SelfReflection, under SpecReflect                         *)

\* C14: analyze_performance on an empty history does not raise and returns a
\* report that holds the no-data message and nothing else: no count, total
\* or mean.
C14_EmptyHistoryGivesMarker ==
    (lastReflect.op = "analyze_performance" /\ lastReflect.history = <<>>) =>
        /\ lastReflect.raised = "none"
        /\ DOMAIN lastReflect.report = {"message"}
        /\ lastReflect.report.message = "No performance data available."

\* C14 witness: analyze_performance was called before anything was logged,
\* while the project-management history already has entries.
C14_Witness ==
    /\ lastReflect.op = "analyze_performance"
    /\ lastReflect.history = <<>>
    /\ performance_logs = <<>>
    /\ project_management_logs # <<>>

\* C16: log_performance with an empty name or a negative execution_time
\* fails with SelfReflectionError and appends nothing, so that every entry of
\* the history has a non-empty name and an execution_time >= 0.
C16_LogPerformanceValidates ==
    /\ (/\ lastReflect.op = "log_performance"
        /\ lastReflect.task_name = <<>> \/ lastReflect.execution_time < 0) =>
            /\ lastReflect.raised = "SelfReflectionError"
            /\ performance_logs = lastReflect.before
    /\ \A i \in 1..Len(performance_logs) :
          /\ performance_logs[i].task_name # <<>>
          /\ performance_logs[i].execution_time >= 0

\* the suggestions of the last suggest_improvements call
Suggested == {lastReflect.suggestions[i] : i \in 1..Len(lastReflect.suggestions)}

\* C20: suggest_improvements returns exactly the applicable suggestions, each
\* rule by itself: the slow-task suggestion iff the mean execution time of the
\* performance history is > 1.0, the completion suggestion iff the completion
\* rate of the project-management history is < 0.8, the token suggestion iff
\* the tokens used exceed 10000; a history that is empty has no mean and no
\* completion rate, and has used no tokens.
C20_ExactlyApplicableSuggestions ==
    lastReflect.op = "suggest_improvements" =>
        LET history == lastReflect.history
            pm_history == lastReflect.pm_history
        IN /\ lastReflect.raised = "none"
           /\ Cardinality(Suggested) = Len(lastReflect.suggestions)
           /\ (SuggestOptimize \in Suggested) =
                 (/\ history # <<>>
                  /\ SumExecutionTime(history) > Len(history))
           /\ (SuggestCompletion \in Suggested) =
                 (/\ pm_history # <<>>
                  /\ 10 * CompletedTasks(pm_history) < 8 * Len(pm_history))
           /\ (SuggestTokens \in Suggested) = (TotalTokensUsed(pm_history) > TokenCeiling)

\* C32: a reflection pass over a history whose mean execution time is > 1.0
\* gets a report that carries a suggestion in areas_for_improvement, and its
\* act_on_insights invokes optimize_slow_tasks for that suggestion.
C32_SlowTaskSuggestionRouted ==
    (/\ lastReflect.op = "perform_self_reflection"
     /\ lastReflect.history # <<>>
     /\ SumExecutionTime(lastReflect.history) > Len(lastReflect.history)) =>
        /\ lastReflect.raised = "none"
        /\ Get(lastReflect.report, "areas_for_improvement", <<>>) # <<>>
        /\ \E i \in 1..Len(lastReflect.calls) :
              /\ lastReflect.calls[i].handler = "optimize_slow_tasks"
              /\ lastReflect.calls[i].improvement
                    = lastReflect.report.areas_for_improvement[
                          lastReflect.calls[i].position]

----------------------------------------------------------------------------
(* Properties of act_on_insights, under SpecInsights                       *)

Acted == lastReflect.op = "act_on_insights"

\* the calls act_on_insights made of one handler
CallsOf(handler) ==
    {j \in 1..Len(lastReflect.calls) : lastReflect.calls[j].handler = handler}

\* the calls it made for the i-th string of areas_for_improvement
CallsAt(i) ==
    {j \in 1..Len(lastReflect.calls) :
        /\ "position" \in DOMAIN lastReflect.calls[j]
        /\ lastReflect.calls[j].position = i}

ReportTrend == Get(lastReflect.report, "trend_analysis", EmptyDict)
ReportAnomalies == Get(lastReflect.report, "anomalies", <<>>)
ReportAreas == Get(lastReflect.report, "areas_for_improvement", <<>>)

TrendAsksForHandler ==
    /\ "trend_direction" \in DOMAIN ReportTrend
    /\ ReportTrend.trend_direction = "decreasing"
    /\ "trend_strength" \in DOMAIN ReportTrend
    /\ ReportTrend.trend_strength > 5

SomeAnomalyFlagged == TRUE \in {ReportAnomalies[i] : i \in 1..Len(ReportAnomalies)}

\* C17: act_on_insights invokes the decreasing-performance handler once,
\* with the trend sub-object, exactly when the trend is decreasing with a
\* strength above 0.5, and the anomaly handler once, with the performance
\* summary and the anomalies, exactly when some anomaly flag is true; neither
\* decision depends on the other (the anomalies are looked at whenever the
\* trend handler has returned).
C17_TrendAndAnomalyDispatch ==
    Acted =>
        /\ Cardinality(CallsOf("address_decreasing_performance"))
              = (IF TrendAsksForHandler THEN 1 ELSE 0)
        /\ \A j \in CallsOf("address_decreasing_performance") :
              lastReflect.calls[j].trend = ReportTrend
        /\ lastReflect.raised # "address_decreasing_performance" =>
              /\ Cardinality(CallsOf("address_anomalies"))
                    = (IF SomeAnomalyFlagged THEN 1 ELSE 0)
              /\ \A j \in CallsOf("address_anomalies") :
                    /\ lastReflect.calls[j].anomalies = ReportAnomalies
                    /\ lastReflect.calls[j].performance_summary
                          = Get(lastReflect.report, "performance_summary", EmptyDict)

\* C17 witness: a report with a decreasing trend of strength 0.6 and with
\* flagged anomalies; both handlers were invoked.
C17_Witness ==
    /\ Acted
    /\ TrendAsksForHandler
    /\ SomeAnomalyFlagged
    /\ CallsOf("address_decreasing_performance") # {}
    /\ CallsOf("address_anomalies") # {}

PhraseOf(handler) ==
    CASE handler = "optimize_slow_tasks" -> PhraseOptimize
      [] handler = "improve_capability_reliability" -> PhraseReliability
      [] handler = "consider_new_capabilities" -> PhraseNewCapabilities

ImprovementHandlerNames ==
    {"optimize_slow_tasks", "improve_capability_reliability", "consider_new_capabilities"}

MatchesSomePhrase(improvement) ==
    \E handler \in ImprovementHandlerNames : Contains(improvement, PhraseOf(handler))

\* C18: when act_on_insights goes through areas_for_improvement, it invokes
\* for each string at most one of the three improvement handlers, one whose
\* phrase the string contains, and passes it that string; a string with none
\* of the phrases gets no handler and no error, and the strings after it are
\* processed all the same, also when an improvement handler raises.
C18_OneHandlerPerImprovement ==
    (Acted /\ lastReflect.raised = "none") =>
        \A i \in 1..Len(ReportAreas) :
            /\ Cardinality(CallsAt(i)) = (IF MatchesSomePhrase(ReportAreas[i]) THEN 1 ELSE 0)
            /\ \A j \in CallsAt(i) :
                  /\ lastReflect.calls[j].handler \in ImprovementHandlerNames
                  /\ Contains(ReportAreas[i], PhraseOf(lastReflect.calls[j].handler))
                  /\ lastReflect.calls[j].improvement = ReportAreas[i]

\* C18 witness: the first of two strings has none of the phrases, the second
\* has two of them, and one handler was invoked for the second.
C18_Witness ==
    /\ Acted
    /\ Len(ReportAreas) = 2
    /\ ~MatchesSomePhrase(ReportAreas[1])
    /\ Contains(ReportAreas[2], PhraseOptimize)
    /\ Contains(ReportAreas[2], PhraseReliability)
    /\ Cardinality(CallsAt(2)) = 1

\* C19: when a handler invoked by act_on_insights raises, the exception is
\* caught for that insight alone: act_on_insights does not raise, and every
\* other insight of the report is still evaluated and its handler invoked.
C19_HandlerFailureCaughtPerInsight ==
    (Acted /\ lastReflect.failing # {}) =>
        /\ lastReflect.raised = "none"
        /\ SomeAnomalyFlagged => CallsOf("address_anomalies") # {}
        /\ \A i \in 1..Len(ReportAreas) :
              MatchesSomePhrase(ReportAreas[i]) => CallsAt(i) # {}

----------------------------------------------------------------------------
(* Properties of the data directory, under SpecStore                       *)

LoadCalls == {"load_logs", "load_performance_data"}

\* the files of a directory that carry the expected version
CompatibleFiles(fs) ==
    {t \in DOMAIN fs : "version" \in DOMAIN fs[t] /\ fs[t].version = "1.0"}

\* a directory and a listing of it without the files outside S
Restrict(fs, S) == [t \in S |-> fs[t]]
Keep(order, S) == SelectSeq(order, LAMBDA t : t \in S)

LoadOf(op, fs, order) ==
    IF op = "load_logs" THEN LoadLogs(fs, order) ELSE LoadPerformanceData(fs, order)

\* C21: load_logs and load_performance_data ignore every snapshot whose
\* version is not the expected one: the load ends as it would end, and returns
\* what it would return, over the same directory without those files.
C21_MismatchedSnapshotIgnored ==
    lastCall.op \in LoadCalls =>
        LET kept == CompatibleFiles(lastCall.directory)
            without == LoadOf(lastCall.op, Restrict(lastCall.directory, kept),
                              Keep(lastCall.order, kept))
        IN /\ lastCall.raised = without.raised
           /\ lastCall.result = without.result

\* a load that met a snapshot of another release first and returned entries
C21_Witness ==
    /\ lastCall.op = "load_logs"
    /\ lastCall.order # <<>>
    /\ lastCall.order[1] \notin CompatibleFiles(lastCall.directory)
    /\ lastCall.raised = "none"
    /\ lastCall.result # <<>>

\* the calls of one kind among the saves that wrote, and those that returned
WrittenBy(saved, op) == SelectSeq(saved, LAMBDA call : call.op = op)
SavedBy(saved, op) == SelectSeq(saved, LAMBDA call : call.op = op /\ call.raised = "none")

\* the entries of the lists saved, one list after the other
RECURSIVE EntriesOf(_)
EntriesOf(saved) ==
    IF saved = <<>> THEN <<>> ELSE Head(saved).data.items \o EntriesOf(Tail(saved))

\* the payloads saved, one after the other
PayloadsOf(saved) == [i \in 1..Len(saved) |-> saved[i].data]

\* C23: a load returns the content of every save that returned before it, in
\* the order of the saves: the entries of the lists given to save_logs, the
\* payloads given to save_performance_data.
C23_EverySaveIsLoaded ==
    /\ (lastCall.op = "load_logs" /\ lastCall.raised = "none"
            /\ \A i \in 1..Len(lastCall.saved) : lastCall.saved[i].data.kind # "int")
        => lastCall.result = EntriesOf(SavedBy(lastCall.saved, "save_logs"))
    /\ (lastCall.op = "load_performance_data" /\ lastCall.raised = "none")
        => lastCall.result = PayloadsOf(SavedBy(lastCall.saved, "save_performance_data"))

\* C28: a save called with debug_mode on ends as the same call with
\* debug_mode off ends (returns, or raises the same error) and leaves the same
\* files.
C28_DebugChangesLogVolumeOnly ==
    /\ lastCall.op = "save_performance_data"
        => LET other == SavePerformanceDataIn(~lastCall.debug_mode, lastCall.before,
                            lastCall.now, lastCall.data, lastCall.outcome)
           IN other.raised = lastCall.raised /\ other.files = lastCall.after
    /\ lastCall.op = "save_logs"
        => LET other == SaveLogs(~lastCall.debug_mode, lastCall.before,
                            lastCall.now, lastCall.data, lastCall.outcome)
           IN other.raised = lastCall.raised /\ other.files = lastCall.after

\* C31: get_latest_performance_data returns None exactly when the directory
\* holds no compatible performance snapshot, and otherwise, after a
\* save_performance_data has written its file, the payload of the last such
\* save.
C31_LatestIsLastSaved ==
    lastCall.op = "get_latest_performance_data" =>
        LET saved == WrittenBy(lastCall.saved, "save_performance_data")
        IN /\ lastCall.raised = "none"
           /\ lastCall.isNone <=> CompatibleFiles(lastCall.directory) = {}
           /\ saved # <<>> =>
                /\ ~lastCall.isNone
                /\ lastCall.result = saved[Len(saved)].data

----------------------------------------------------------------------------
(* Properties of a registry constructed over a data directory, under       *)
(* SpecRestart                                                             *)

\* the name -> description pairs of a catalog
PairsOf(catalog) ==
    {<<catalog[i].name, catalog[i].description>> : i \in 1..Len(catalog)}

\* the directory holds the snapshot _save_capabilities writes of a catalog
HoldsCatalog(fs, caps) ==
    \E t \in DOMAIN fs :
        /\ IsCompatibleVersion(fs[t])
        /\ fs[t].performance_data = JsonList(CatalogRecords(caps))

\* C22: a registry constructed over the directory in which a registry saved
\* its catalog has the name -> description pairs of that catalog, in whatever
\* order the files are listed.
C22_SavedCatalogReloaded ==
    (lastCall.op = "construct" /\ lastCall.loaded /\ pre # <<>>
        /\ HoldsCatalog(lastCall.directory, pre))
    => /\ lastCall.raised = "none"
       /\ PairsOf(lastCall.catalog) = PairsOf(pre)

\* C26: the catalog of a registry that has just been constructed lists every
\* capability its loader discovered in the capability directory.
C26_DiscoveredAreListed ==
    (lastCall.op = "construct" /\ lastCall.raised = "none")
    => lastCall.discovered \subseteq Names(lastCall.catalog)

\* the catalog entries the payloads of a directory hold: the records of a
\* saved catalog, and a payload that is one record by itself
PersistedEntries(fs) ==
    UNION {IF fs[t].performance_data.kind = "list"
           THEN {fs[t].performance_data.items[i] :
                    i \in 1..Len(fs[t].performance_data.items)}
           ELSE IF Get(fs[t].performance_data.value, "type", "None") = "capability"
                THEN {fs[t].performance_data.value}
                ELSE {} : t \in CompatibleFiles(fs)}

\* C27: a construction that meets a persisted entry the loader cannot resolve
\* completes, leaves that entry out of the catalog, and has every persisted
\* entry that resolves in the catalog.
C27_UnresolvableEntrySkipped ==
    (lastCall.op = "construct" /\ lastCall.loaded
        /\ \E e \in PersistedEntries(lastCall.directory) : e.name \notin lastCall.discovered)
    => /\ lastCall.raised = "none"
       /\ \A e \in PersistedEntries(lastCall.directory) :
             e.name \in Names(lastCall.catalog) <=> e.name \in lastCall.discovered

\* the directory holds the snapshot of a catalog other than caps
HoldsEarlierCatalog(fs, caps) ==
    \E t \in CompatibleFiles(fs) :
        /\ fs[t].performance_data.kind = "list"
        /\ fs[t].performance_data # JsonList(CatalogRecords(caps))

\* C38: a registry constructed over the directory in which the registry
\* before it saved its catalog after each add and remove has the pairs of
\* the catalog that registry had last; the snapshots of its earlier catalogs
\* add nothing to it.
C38_RestartKeepsLastCatalog ==
    (lastCall.op = "construct" /\ lastCall.loaded
        /\ HoldsCatalog(lastCall.directory, pre)
        /\ HoldsEarlierCatalog(lastCall.directory, pre))
    => /\ lastCall.raised = "none"
       /\ PairsOf(lastCall.catalog) = PairsOf(pre)

----------------------------------------------------------------------------
(* Properties of load_capabilities, under SpecLoad                         *)

\* the symbol of a qualified name: what follows its first dot
SymbolOf(name) ==
    LET dot == CHOOSE i \in 1..Len(name) :
                    name[i] = "." /\ \A j \in 1..(i - 1) : name[j] # "."
    IN SubSeq(name, dot + 1, Len(name))

\* C24: after load_capabilities has returned, the mapping has the entry
\* "<unit>.<symbol>" for every callable symbol of every module file whose name
\* does not begin with an underscore, and has no entry whose symbol begins
\* with an underscore.
C24_PublicCallablesOnly ==
    (lastCall.op = "load_capabilities" /\ lastCall.raised = "none")
    => /\ \A file \in lastCall.directory : \A item \in file.symbols :
             (IsCapabilityFile(file.filename) /\ item.callable
                 /\ ~StartsWith(item.name, <<"_">>))
             => (ModuleName(file.filename) \o <<".">> \o item.name)
                    \in lastCall.capabilities
       /\ \A name \in lastCall.capabilities : ~StartsWith(SymbolOf(name), <<"_">>)

\* C25: a load_capabilities over a directory with a module that fails to
\* load raises CapabilityError and leaves the mapping as it was before the
\* call.
C25_FailedLoadIsNotPartial ==
    (lastCall.op = "load_capabilities"
        /\ \E file \in lastCall.directory :
                IsCapabilityFile(file.filename) /\ ~file.loads)
    => /\ lastCall.raised = "CapabilityError"
       /\ lastCall.capabilities = lastCall.loaderBefore

----------------------------------------------------------------------------
(* Properties of a cycle whose catalog the client changes, under SpecCore  *)

C30_CycleRunsOverSnapshot ==
    /\ fatal = {}
    /\ CycleReturned =>
        /\ listed = ListCapabilities(listedFrom)
        /\ AttemptNames = NameSeq(listed)

\* the records performance_data holds for a capability
RecordsOf(name) ==
    IF name \in DOMAIN performance_data THEN performance_data[name] ELSE <<>>

\* the entries of the history the cycles logged for a capability
LoggedFor(name) == {i \in 1..Len(performance_logs) : performance_logs[i].task_name = name}

\* C36: at every moment, and for every capability, performance_data holds as
\* many records as the cycles have logged entries for it in the history, so
\* that no record is there without its entry.
C36_DataMatchesHistory ==
    \A name \in DOMAIN performance_data \cup Names(listed) \cup Names(capabilities) :
        Len(RecordsOf(name)) = Cardinality(LoggedFor(name))

\* C36 witness: the second cycle has attempted a capability that it invoked
\* with success, after a first cycle that made its attempts too.
C36_Witness ==
    /\ cycle = 2
    /\ prevPhases # <<>>
    /\ attempts # <<>>
    /\ attempts[Len(attempts)].status = "success"

----------------------------------------------------------------------------
(* Properties of the loop with failing collaborators, under SpecFaulty     *)

\* the reflection pass of a cycle with these phases raised
ReflectionFailed(finished) ==
    \E i \in 1..Len(finished) : finished[i] \in {"analyze raised", "dispatch raised"}

\* C37: an exception of analyze_performance or of act_on_insights does not
\* stop the loop: the cycle is not a fatal one unless its wait raised too, the
\* loop goes on to the wait, and the flag is False only after a stop() or
\* after execute_task_cycle or wait raised.
C37_ReflectionFailureRecoverable ==
    /\ ReflectionFailed(phases) =>
         /\ pc \in {"wait", "while", "returned"}
         /\ pc # "wait" => phases[Len(phases)] \in {"wait", "wait raised"}
         /\ cycle \in fatal => phases[Len(phases)] = "wait raised"
    /\ (~running /\ pc # "idle") => (stopAt # NoStop \/ fatal # {})
    /\ \A c \in fatal : c < cycle \/ phases = <<>> \/ phases[Len(phases)] = "wait raised"

\* C37 witness: the reflection pass of the first cycle raised, the loop
\* waited, and the second cycle is under way with the flag still True.
C37_Witness ==
    /\ cycle = 2
    /\ ReflectionFailed(prevPhases)
    /\ prevPhases[Len(prevPhases)] = "wait"
    /\ pc \in InCycle
    /\ running
    /\ fatal = {}


----------------------------------------------------------------------------
(* Properties of AutonomousProjectManager, under SpecBoard                 *)

\* the tasks of a list, as a set
TasksOf(column) == {column[i] : i \in 1..Len(column)}

\* the To Do tasks of a board each dependency of which is the name of a task
\* in Done
Unblocked(ts) ==
    {task \in TasksOf(ts[ToDo]) :
        \A k \in 1..Len(task.dependencies) :
            \E done \in TasksOf(ts[Done]) : done.name = task.dependencies[k]}

\* C33: prioritize_tasks returns exactly the To Do tasks whose dependencies
\* all name tasks in Done, each once, in non-increasing order of
\* business_value / effort; select_next_task returns one of these tasks, and
\* None exactly when there is none.
C33_PrioritizedAreUnblocked ==
    /\ lastBoard.op = "prioritize_tasks" =>
         /\ lastBoard.raised = "none"
         /\ TasksOf(lastBoard.result) = Unblocked(lastBoard.before)
         /\ Len(lastBoard.result) = Cardinality(Unblocked(lastBoard.before))
         /\ \A i, j \in 1..Len(lastBoard.result) :
               i < j => ~RatioGreater(lastBoard.result[j], lastBoard.result[i])
    /\ lastBoard.op = "select_next_task" =>
         /\ lastBoard.raised = "none"
         /\ lastBoard.result = <<>> <=> Unblocked(lastBoard.before) = {}
         /\ TasksOf(lastBoard.result) \subseteq Unblocked(lastBoard.before)

\* the word a name ends with
WordOf(name) == name[Len(name)]

\* every dependency written on the board is the word of a task of the board
Resolvable(ts) ==
    \A task \in BoardTasks(ts) : \A k \in 1..Len(task.dependencies) :
        \E other \in BoardTasks(ts) :
            WordOf(other.name) = WordOf(task.dependencies[k])

\* C34: when run() has returned, In Progress is empty and every task left in
\* To Do has a dependency that no Done task satisfies; on a board whose
\* dependencies all name tasks of the board (none of the boards has a cycle)
\* To Do is empty; and run() assigned no task before all its dependencies
\* were in Done.
C34_RunCompletesBoard ==
    /\ run_pc = "returned" =>
         /\ tasks[InProgress] = <<>>
         /\ Unblocked(tasks) = {}
         /\ Resolvable(tasks) => tasks[ToDo] = <<>>
    /\ (run_pc = "complete" /\ lastBoard.op = "assign_task") =>
         lastBoard.task \in Unblocked(lastBoard.before)

\* the number of entries of the three columns
Total(ts) == Len(ts[ToDo]) + Len(ts[InProgress]) + Len(ts[Done])

\* C35: every task is in exactly one column, once; assign_task and
\* complete_task keep the tasks of the board and their number, and leave the
\* three columns as they were when the task is not in To Do (assign_task) or
\* not in In Progress (complete_task).
C35_MovesKeepPartition ==
    /\ Cardinality(BoardTasks(tasks)) = Total(tasks)
    /\ lastBoard.op \in {"assign_task", "complete_task"} =>
         /\ BoardTasks(lastBoard.after) = BoardTasks(lastBoard.before)
         /\ Total(lastBoard.after) = Total(lastBoard.before)
         /\ Cardinality(BoardTasks(lastBoard.after)) = Total(lastBoard.after)
         /\ (/\ lastBoard.op = "assign_task"
             /\ lastBoard.task \notin TasksOf(lastBoard.before[ToDo])) =>
                lastBoard.after = lastBoard.before
         /\ (/\ lastBoard.op = "complete_task"
             /\ lastBoard.task \notin TasksOf(lastBoard.before[InProgress])) =>
                lastBoard.after = lastBoard.before

\* C35 witness: the caller has assigned a task of To Do and then completed
\* it, on a board that has other tasks in To Do and in In Progress.
C35_Witness ==
    /\ lastBoard.op = "complete_task"
    /\ run_pc = "idle"
    /\ lastBoard.task \in TasksOf(lastBoard.before[InProgress])
    /\ lastBoard.task \in TasksOf(tasks[Done])
    /\ tasks[ToDo] # <<>>
    /\ tasks[InProgress] # <<>>

\* C35 witness of the calls that change nothing: complete_task on a task that
\* is still in To Do.
C35_RefusedWitness ==
    /\ lastBoard.op = "complete_task"
    /\ lastBoard.task \in TasksOf(lastBoard.before[ToDo])
    /\ lastBoard.after = lastBoard.before

====
